---- MODULE Spec2Model ----
(***************************************************************************)
(* Tiered session store of the cohort-metrics backend (backend/main.py):   *)
(* streaming and explicit-chunk ingestion, the Memory / ColumnarOnDisk     *)
(* tier decision, the session registry (SESSION_STORE, SESSION_FILE_STORE, *)
(* UPLOAD_PROGRESS), functions/join as "replace", and session teardown.    *)
(*                                                                         *)
(* Byte sizes and row counts are scaled down.  The scaled constants keep   *)
(* DUCKDB_THRESHOLD < MAX_FILE_SIZE and CHUNK_SIZE < MAX_FILE_SIZE, so a   *)
(* file can be below, at and above the tier threshold and still be within  *)
(* the ceiling, and the ceiling is crossed by a chunk, not by a byte.      *)
(*                                                                         *)
(* Every handler H is an operator H_result(inputs): the response of the    *)
(* call together with the state it leaves, as a function of the state it   *)
(* runs in.  The action H takes the step; the properties speak about       *)
(* H_result in every reachable state.                                      *)
(***************************************************************************)
EXTENDS Integers, FiniteSets, Sequences, TLC

\* ---- program constants (scaled) ------------------------------------------
MAX_FILE_SIZE == 3
CHUNK_SIZE == 2
CSV_CHUNK_SIZE == 1
DUCKDB_THRESHOLD == 2

\* ---- bounds of the model -------------------------------------------------
MaxSessions == 2      \* session handles ever registered
MaxUploads == 1       \* upload ids ever generated
MaxDirs == 1          \* temp directories ever created by mkdtemp
MaxVer == 1           \* successful joins per session (data version)
MaxInFlight == 3      \* upload_chunk requests suspended at the same time
\* data rows in an uploaded file: up to two batches of the large-file path
MaxRows == 2 * CSV_CHUNK_SIZE
\* bytes an upload is followed for: up to one byte past the ceiling
MaxBytes == MAX_FILE_SIZE + 1
\* rows of a file whose invalid-date ratio is computed: past 100, so that a
\* ratio of exactly 1% and its neighbours occur
MaxParseRows == 101
\* rows with an unparseable date in such a file
MaxParseBad == 2
\* rows of a table the query paths are applied to
MaxQRows == 2
\* further rows of an uploaded file, enough for one bad date to stay within 1%
MaxPad == 100
\* row counts followed: a header-only file, and a file of MaxRows rows
RowCounts == {0, MaxRows}

Sids == 1..MaxSessions
Uids == 1..MaxUploads
Dirs == 1..MaxDirs
\* a handle a client may send: 0 is the missing header, the others are tokens
Handles == 0..MaxSessions
UploadIds == 0..MaxUploads

\* ---- files and directories -----------------------------------------------
\* size: bytes on disk.  What pandas makes of those bytes is fixed by the bytes
\* but known only once the file is read (read): hdr is the header/sample of
\* the CSV; rows/bad the data rows and the rows with an unparseable date;
\* fault the batch (1-based) whose processing raises in the batch loop, 0 if
\* none.
Headers == {"ok", "nocohort", "nodate", "unreadable"}
NoCsv == [exists |-> FALSE, size |-> 0, read |-> FALSE, hdr |-> "ok", rows |-> 0,
          bad |-> 0, fault |-> 0]
NoPq == [exists |-> FALSE, state |-> "none", rows |-> 0, ver |-> 0]
NoDir == [exists |-> FALSE, csv |-> NoCsv, pq |-> NoPq]
EmptyDir == [exists |-> TRUE, csv |-> NoCsv, pq |-> NoPq]

\* ---- registry entries ----------------------------------------------------
NoSession == [tier |-> "none", parquet_path |-> 0, num_rows |-> 0, ver |-> 0,
              invalid_dates |-> 0, full |-> FALSE]
NoPath == [kind |-> "none", dir |-> 0]
NoUpload == [status |-> "none", total_size |-> 0, bytes_uploaded |-> 0,
             temp_dir |-> 0, session_id |-> 0]

\* ---- requests in flight --------------------------------------------------
UplIdle == [pc |-> "idle", dir |-> 0, total |-> 0]
JoinIdle == [pc |-> "idle", h |-> 0, path |-> 0, rows |-> 0, ver |-> 0]
RdIdle == [pc |-> "idle", op |-> "none", h |-> 0, path |-> 0, ver |-> 0, overlap |-> FALSE]
\* no function is being applied
NoCalc == [fn |-> "none"]

VARIABLES
  SESSION_STORE,        \* handle -> DataFrame or metadata dict
  SESSION_FILE_STORE,   \* handle -> temp file path or temp directory
  UPLOAD_PROGRESS,      \* upload id -> progress dict
  fs,                   \* the temp directories under the temp root
  tmp_root,             \* the temp root itself exists
  nextSid, nextUid, nextDir,   \* fresh tokens / mkdtemp names
  upl,                  \* the upload_csv request suspended in its read loop
  join,                 \* the functions/join request running on the loop
  rd,                   \* a read request running on a worker thread
  chunk,                \* the upload_chunk requests suspended in await file.read()
  stopped,              \* the shutdown handler has run
  calc                  \* a function of the program applied to given inputs

vars == <<SESSION_STORE, SESSION_FILE_STORE, UPLOAD_PROGRESS, fs, tmp_root,
          nextSid, nextUid, nextDir, upl, join, rd, chunk, stopped, calc>>

\* the process after start-up: empty registries, nothing in flight
InitStore ==
  /\ SESSION_STORE = [s \in Sids |-> NoSession]
  /\ SESSION_FILE_STORE = [s \in Sids |-> NoPath]
  /\ UPLOAD_PROGRESS = [u \in Uids |-> NoUpload]
  /\ fs = [d \in Dirs |-> NoDir]
  /\ tmp_root = TRUE
  /\ nextSid = 1 /\ nextUid = 1 /\ nextDir = 1
  /\ upl = UplIdle
  /\ join = JoinIdle
  /\ rd = RdIdle
  /\ chunk = <<>>
  /\ stopped = FALSE

Init == InitStore /\ calc = NoCalc

\* ---- responses and results -------------------------------------------------
\* ok/code: success, or the kind of error; sid: the session_id in the body;
\* batches: batches written to a columnar artifact by the call; scanned: the
\* call ran a query on session data; val: bytes_uploaded in the body.
\* meta/state/data/overlap: for a read request, the version of the session
\* reference it resolved, what it then found at the artifact, and whether a
\* join of the same handle ran while it was running.
Resp(ok, code, sid, batches, scanned, val) ==
  [ok |-> ok, code |-> code, sid |-> sid, batches |-> batches, scanned |-> scanned,
   val |-> val, meta |-> 0, state |-> "none", data |-> 0, overlap |-> FALSE]

\* raise HTTPException(...), or a body with success=False
Error(code) == Resp(FALSE, code, 0, 0, FALSE, 0)

\* the request has not returned: it is suspended or still running
Pending == Error("pending")

Saw(r, meta, state, data, overlap) ==
  [r EXCEPT !.meta = meta, !.state = state, !.data = data, !.overlap = overlap]

\* the state a handler runs in, with no response yet
State ==
  [resp |-> Pending,
   SESSION_STORE |-> SESSION_STORE, SESSION_FILE_STORE |-> SESSION_FILE_STORE,
   UPLOAD_PROGRESS |-> UPLOAD_PROGRESS, fs |-> fs, tmp_root |-> tmp_root,
   nextSid |-> nextSid, nextUid |-> nextUid, nextDir |-> nextDir,
   upl |-> upl, join |-> join, rd |-> rd, chunk |-> chunk, stopped |-> stopped]

\* the handler returns r and touches nothing
Returns(r) == [State EXCEPT !.resp = r]

\* the step to the state of a result
Becomes(o) ==
  /\ SESSION_STORE' = o.SESSION_STORE
  /\ SESSION_FILE_STORE' = o.SESSION_FILE_STORE
  /\ UPLOAD_PROGRESS' = o.UPLOAD_PROGRESS
  /\ fs' = o.fs
  /\ tmp_root' = o.tmp_root
  /\ nextSid' = o.nextSid /\ nextUid' = o.nextUid /\ nextDir' = o.nextDir
  /\ upl' = o.upl
  /\ join' = o.join
  /\ rd' = o.rd
  /\ chunk' = o.chunk
  /\ stopped' = o.stopped
  /\ calc' = calc

\* the result stays within the bounds of the model
Fits(o) ==
  /\ o.nextSid <= MaxSessions + 1
  /\ o.nextUid <= MaxUploads + 1
  /\ o.nextDir <= MaxDirs + 1
  /\ o.upl.total <= MaxBytes
  /\ \A u \in Uids : o.UPLOAD_PROGRESS[u].bytes_uploaded <= MaxBytes
  /\ o.join.ver <= MaxVer
  /\ Len(o.chunk) <= MaxInFlight

\* the stores and the directory tree of a result are those of the state
Untouched(o) ==
  /\ o.SESSION_STORE = SESSION_STORE
  /\ o.SESSION_FILE_STORE = SESSION_FILE_STORE
  /\ o.fs = fs

\* ---- helpers -------------------------------------------------------------
InStore(h) == h \in Sids /\ SESSION_STORE[h].tier # "none"
InFileStore(h) == h \in Sids /\ SESSION_FILE_STORE[h].kind # "none"
InProgress(u) == u \in Uids /\ UPLOAD_PROGRESS[u].status # "none"
IsDuck(session) == session.tier = "Columnar"

DirExists(d) == d \in Dirs /\ fs[d].exists
ParquetExists(d) == DirExists(d) /\ fs[d].pq.exists
CsvExists(d) == DirExists(d) /\ fs[d].csv.exists

\* shutil.rmtree(temp_dir, ignore_errors=True) left out
rmtree_Skips(f, d) == f

\* shutil.rmtree(d, ignore_errors=True) of one temp directory
rmtree(f, d) == IF d \in Dirs THEN [f EXCEPT ![d] = NoDir] ELSE f

\* the async handlers share one event loop: functions/join never awaits, so
\* no other coroutine runs between its first and last statement
LoopFree == join.pc = "idle"

\* ---- ingestion -------------------------------------------------------------
\* the tier decision with the threshold itself on the Memory side
IsSmall_Inclusive(file_size) == file_size <= DUCKDB_THRESHOLD

\* if file_size < DUCKDB_THRESHOLD: the in-memory path
IsSmall(file_size) == file_size < DUCKDB_THRESHOLD

\* only the cohort column is required
StructuralError_CohortOnly(hdr) == hdr = "nocohort"

\* "cohort" not in columns, or neither "date" nor "time" in columns
StructuralError(hdr) == hdr \in {"nocohort", "nodate"}

\* pd.read_csv(chunksize=CSV_CHUNK_SIZE): a header-only file yields one empty
\* chunk, otherwise ceil(rows / CSV_CHUNK_SIZE) chunks
NumBatches(rows) ==
  IF rows = 0 THEN 1 ELSE (rows + CSV_CHUNK_SIZE - 1) \div CSV_CHUNK_SIZE

\* invalid_pct = (invalid_date_count / total_rows) * 100;  invalid_pct > 1
\* the comparison written as invalid_pct >= 1
InvalidPctExceeds_AtLeast(bad, rows) == bad > 0 /\ bad * 100 >= rows

\* The quotient and the product are IEEE doubles in the code.  bad / rows
\* rounds to the double nearest 1/100 exactly when 100 * bad = rows, and that
\* double times 100 rounds to 1.0; any other ratio is further from 1/100 than
\* the rounding error for every row count a file can hold, so the comparison
\* agrees with the exact one.
InvalidPctExceeds(bad, rows) == bad > 0 /\ bad * 100 > rows

\* process_csv_to_parquet(temp_path, parquet_path): the result of the call on
\* the CSV file csv when the file at parquet_path is oldpq.
\*   ok/code  - returned metadata, or the kind of exception raised
\*   pq       - the file at parquet_path when the call returns or raises
\*   batches  - batches written to the artifact during the call
process_csv_to_parquet(csv, oldpq, path) ==
  IF ~csv.exists \/ csv.hdr = "unreadable" THEN
    [ok |-> FALSE, code |-> "process", pq |-> oldpq, batches |-> 0, session |-> NoSession]
  ELSE IF StructuralError(csv.hdr) THEN
    [ok |-> FALSE, code |-> "structural", pq |-> oldpq, batches |-> 0, session |-> NoSession]
  ELSE IF csv.fault > 0 THEN
    \* exception in the batch loop: writer.close(), os.unlink(parquet_path)
    [ok |-> FALSE, code |-> "process", pq |-> NoPq, batches |-> csv.fault - 1,
     session |-> NoSession]
  ELSE IF InvalidPctExceeds(csv.bad, csv.rows) THEN
    \* HTTPException raised after writer.close(); re-raised as is
    [ok |-> FALSE, code |-> "threshold",
     pq |-> [exists |-> TRUE, state |-> "complete", rows |-> csv.rows, ver |-> 0],
     batches |-> NumBatches(csv.rows), session |-> NoSession]
  ELSE
    [ok |-> TRUE, code |-> "",
     pq |-> [exists |-> TRUE, state |-> "complete", rows |-> csv.rows, ver |-> 0],
     batches |-> NumBatches(csv.rows),
     session |-> [tier |-> "Columnar", parquet_path |-> path, num_rows |-> csv.rows,
                  ver |-> 0, invalid_dates |-> csv.bad, full |-> TRUE]]

\* the body of the try block shared by upload_csv and complete_chunked_upload:
\* what is registered (session, path), what is at parquet_path afterwards, and
\* whether the block returned (ok) or raised (code).
ingest(file_size, csv, oldpq, d) ==
  IF ~csv.exists THEN
    \* detect_csv_delimiter: open() raises FileNotFoundError
    [ok |-> FALSE, code |-> "process", session |-> NoSession, path |-> NoPath,
     pq |-> oldpq, batches |-> 0]
  ELSE IF IsSmall(file_size) THEN
    IF csv.hdr = "unreadable" THEN
      [ok |-> FALSE, code |-> "process", session |-> NoSession, path |-> NoPath,
       pq |-> oldpq, batches |-> 0]
    ELSE IF StructuralError(csv.hdr) THEN
      [ok |-> FALSE, code |-> "structural", session |-> NoSession, path |-> NoPath,
       pq |-> oldpq, batches |-> 0]
    ELSE IF csv.bad > 0 THEN
      [ok |-> FALSE, code |-> "invalid_dates", session |-> NoSession, path |-> NoPath,
       pq |-> oldpq, batches |-> 0]
    ELSE
      \* SESSION_STORE[session_id] = df precedes date_min.strftime, which
      \* raises on NaT when the table has no rows
      [ok |-> csv.rows > 0, code |-> IF csv.rows > 0 THEN "" ELSE "process",
       session |-> [tier |-> "Memory", parquet_path |-> 0, num_rows |-> csv.rows,
                    ver |-> 0, invalid_dates |-> 0, full |-> TRUE],
       path |-> [kind |-> "file", dir |-> d],
       pq |-> oldpq, batches |-> 0]
  ELSE
    LET r == process_csv_to_parquet(csv, oldpq, d) IN
      [ok |-> r.ok, code |-> r.code, session |-> r.session,
       path |-> IF r.ok THEN [kind |-> "dir", dir |-> d] ELSE NoPath,
       pq |-> r.pq, batches |-> r.batches]

\* the assignment to SESSION_STORE left out
Register_Skips(store, sid, session) == store

\* SESSION_STORE[session_id] = df  /  = session_metadata
Register(store, sid, session) == [store EXCEPT ![sid] = session]

\* the registry, the directory tree and the response after the try block and
\* its except clauses ran on the file csv of directory d: s is the state
\* record to start from
Ingested(s, file_size, csv, d) ==
  LET out == ingest(file_size, csv, s.fs[d].pq, d)
      reg == out.session.tier # "none"
      sid == s.nextSid
  IN [s EXCEPT
        !.SESSION_STORE = IF reg THEN Register(@, sid, out.session) ELSE @,
        !.SESSION_FILE_STORE = IF reg THEN [@ EXCEPT ![sid] = out.path] ELSE @,
        !.nextSid = IF reg THEN @ + 1 ELSE @,
        !.fs = IF out.ok THEN [@ EXCEPT ![d].pq = out.pq] ELSE rmtree(@, d),
        !.resp = IF out.ok THEN Resp(TRUE, "", sid, out.batches, FALSE, 0)
                 ELSE Resp(FALSE, out.code, 0, out.batches, FALSE, 0)]

\* what reading a file of a given size can yield: an empty file has no header
Contents(size) ==
  IF size = 0
    THEN {[exists |-> TRUE, size |-> 0, read |-> TRUE, hdr |-> "unreadable", rows |-> 0,
           bad |-> 0, fault |-> 0]}
    ELSE [exists : {TRUE}, size : {size}, read : {TRUE}, hdr : Headers \ {"ok"},
          rows : {0}, bad : {0}, fault : {0}]
         \cup UNION {[exists : {TRUE}, size : {size}, read : {TRUE}, hdr : {"ok"},
                      rows : {r}, bad : 0..r, fault : 0..NumBatches(r)] : r \in RowCounts}

\* a file that was read before reads the same again
Parses(csv) == IF csv.read THEN {csv} ELSE Contents(csv.size)

\* ---- POST /upload ---------------------------------------------------------
\* upload_csv up to the first await of the read loop: filename check, mkdtemp
\* (outside the try block), open(temp_path, 'wb')
UploadBegin_result(isCsv) ==
  IF ~isCsv THEN Returns(Error("not_csv"))
  ELSE IF ~tmp_root THEN Returns(Error("internal"))
  ELSE [State EXCEPT
          !.fs = [@ EXCEPT ![nextDir] = [EmptyDir EXCEPT !.csv.exists = TRUE]],
          !.nextDir = @ + 1,
          !.upl = [pc |-> "streaming", dir |-> nextDir, total |-> 0]]

UploadBegin(isCsv) ==
  /\ LoopFree /\ upl.pc = "idle"
  /\ LET o == UploadBegin_result(isCsv) IN Fits(o) /\ Becomes(o)

\* the ceiling check that never fires
ExceedsCeiling_Never(total_size) == FALSE

\* if total_size > MAX_FILE_SIZE
ExceedsCeiling(total_size) == total_size > MAX_FILE_SIZE

\* stream_file_to_disk: one iteration of the loop with a non-empty chunk of n
\* bytes; on overflow os.unlink(temp_path), HTTPException 413, and upload_csv's
\* handler removes temp_dir
stream_file_to_disk_result(n) ==
  LET d == upl.dir
      total == upl.total + n
  IN IF ExceedsCeiling(total) THEN
       [State EXCEPT
          !.fs = rmtree(@, d),
          !.upl = UplIdle,
          !.resp = Error(IF CsvExists(d) THEN "too_large" ELSE "process")]
     ELSE
       [State EXCEPT
          !.fs = IF CsvExists(d) THEN [@ EXCEPT ![d].csv.size = total] ELSE @,
          !.upl = [@ EXCEPT !.total = total]]

stream_file_to_disk(n) ==
  /\ LoopFree /\ upl.pc = "streaming"
  /\ LET o == stream_file_to_disk_result(n) IN Fits(o) /\ Becomes(o)

\* upload_csv after the read loop ended (empty chunk): tier decision, parsing,
\* registration, response; c is what reading the streamed bytes yields
upload_csv_result(c) ==
  LET d == upl.dir
      csv == IF CsvExists(d) THEN c ELSE NoCsv
  IN Ingested([State EXCEPT !.upl = UplIdle], upl.total, csv, d)

upload_csv(c) ==
  /\ LoopFree /\ upl.pc = "streaming"
  /\ c \in Contents(upl.total)
  /\ LET o == upload_csv_result(c) IN Fits(o) /\ Becomes(o)

\* ---- explicit-chunk upload -------------------------------------------------
\* POST /upload/init
init_chunked_upload_result(isCsv, file_size) ==
  IF ~isCsv THEN Returns(Error("not_csv"))
  ELSE IF file_size > MAX_FILE_SIZE THEN Returns(Error("too_large"))
  ELSE IF ~tmp_root THEN Returns(Error("internal"))
  ELSE [State EXCEPT
          !.UPLOAD_PROGRESS = [@ EXCEPT ![nextUid] =
             [status |-> "initialized", total_size |-> file_size, bytes_uploaded |-> 0,
              temp_dir |-> nextDir, session_id |-> 0]],
          !.fs = [@ EXCEPT ![nextDir] = EmptyDir],
          !.nextUid = @ + 1,
          !.nextDir = @ + 1,
          !.resp = Resp(TRUE, "", 0, 0, FALSE, 0)]

init_chunked_upload(isCsv, file_size) ==
  /\ LoopFree
  /\ LET o == init_chunked_upload_result(isCsv, file_size) IN Fits(o) /\ Becomes(o)

\* file.read() takes the whole part, whatever max_chunk_size the client was told
ChunkSizes == 0..(CHUNK_SIZE + 1)

\* POST /upload/chunk/{upload_id}
upload_chunk_result(u, n) ==
  IF ~InProgress(u) THEN Returns(Error("not_found"))
  ELSE LET progress == UPLOAD_PROGRESS[u]
           d == progress.temp_dir
       IN IF ~DirExists(d) THEN
            \* open(temp_path, 'ab') raises: the directory is gone
            Returns(Error("internal"))
          ELSE
            [State EXCEPT
               \* open(temp_path, 'ab'); f.write(chunk_data)
               !.fs = [@ EXCEPT ![d].csv =
                         IF n = 0 THEN [@ EXCEPT !.exists = TRUE]
                         ELSE [NoCsv EXCEPT !.exists = TRUE, !.size = fs[d].csv.size + n]],
               !.UPLOAD_PROGRESS = [@ EXCEPT ![u].bytes_uploaded = @ + n,
                                             ![u].status = "uploading"],
               !.resp = Resp(TRUE, "", 0, 0, FALSE, progress.bytes_uploaded + n)]

upload_chunk(u, n) ==
  /\ LoopFree
  /\ LET o == upload_chunk_result(u, n) IN Fits(o) /\ Becomes(o)

\* GET /upload/progress/{upload_id}
get_upload_progress_result(u) ==
  IF ~InProgress(u) THEN Returns(Error("not_found"))
  ELSE Returns(Resp(TRUE, "", 0, 0, FALSE, UPLOAD_PROGRESS[u].bytes_uploaded))

get_upload_progress(u) ==
  /\ LoopFree
  /\ LET o == get_upload_progress_result(u) IN Fits(o) /\ Becomes(o)

\* what reading the assembled file of upload u yields
Assembled(u) ==
  IF InProgress(u) /\ CsvExists(UPLOAD_PROGRESS[u].temp_dir)
  THEN Parses(fs[UPLOAD_PROGRESS[u].temp_dir].csv)
  ELSE {NoCsv}

\* POST /upload/complete/{upload_id}
complete_chunked_upload_result(u, c) ==
  IF ~InProgress(u) THEN Returns(Error("not_found"))
  ELSE LET progress == UPLOAD_PROGRESS[u]
           d == progress.temp_dir
           csv == IF CsvExists(d) THEN c ELSE NoCsv
           o == Ingested(State, progress.bytes_uploaded, csv, d)
       IN IF o.resp.ok THEN
            [o EXCEPT !.fs = [@ EXCEPT ![d].csv = csv],
                      !.UPLOAD_PROGRESS = [@ EXCEPT ![u].status = "completed",
                                                    ![u].session_id = o.resp.sid]]
          ELSE
            \* except: rmtree(temp_dir); del UPLOAD_PROGRESS[upload_id]
            [o EXCEPT !.UPLOAD_PROGRESS = [@ EXCEPT ![u] = NoUpload]]

complete_chunked_upload(u, c) ==
  /\ LoopFree
  /\ c \in Assembled(u)
  /\ LET o == complete_chunked_upload_result(u, c) IN Fits(o) /\ Becomes(o)

\* ---- upload_chunk with its suspension ----------------------------------------
\* upload_chunk up to  chunk_data = await file.read():  the membership test
\* and  progress = UPLOAD_PROGRESS[upload_id].  The request keeps the dict and
\* temp_path; seen is bytes_uploaded at that moment.
ChunkBegin_result(u) ==
  IF ~InProgress(u) THEN Returns(Error("not_found"))
  ELSE [State EXCEPT
          !.chunk = Append(@, [u |-> u, dir |-> UPLOAD_PROGRESS[u].temp_dir,
                               seen |-> UPLOAD_PROGRESS[u].bytes_uploaded])]

ChunkBegin(u) ==
  /\ LoopFree
  /\ LET o == ChunkBegin_result(u) IN Fits(o) /\ Becomes(o)

\* the counter set from the value read before the await
Added_FromSeen(current, seen, n) == seen + n

\* progress["bytes_uploaded"] += len(chunk_data): read and written with no
\* await in between
Added(current, seen, n) == current + n

\* the sequence without its i-th element
Without(seq, i) == SubSeq(seq, 1, i - 1) \o SubSeq(seq, i + 1, Len(seq))

\* upload_chunk from the return of file.read() (n bytes) to its response:
\* open(temp_path, 'ab'), write, add to the counter
ChunkEnd_result(i, n) ==
  LET req == chunk[i]
      rest == Without(chunk, i)
  IN IF ~DirExists(req.dir) THEN
       [State EXCEPT !.chunk = rest, !.resp = Error("internal")]
     ELSE
       LET bytes == Added(UPLOAD_PROGRESS[req.u].bytes_uploaded, req.seen, n) IN
       [State EXCEPT
          !.chunk = rest,
          !.fs = [@ EXCEPT ![req.dir].csv =
                    IF n = 0 THEN [@ EXCEPT !.exists = TRUE]
                    ELSE [NoCsv EXCEPT !.exists = TRUE, !.size = fs[req.dir].csv.size + n]],
          \* the dict of a deleted entry is no longer in UPLOAD_PROGRESS
          !.UPLOAD_PROGRESS = IF InProgress(req.u)
                              THEN [@ EXCEPT ![req.u].bytes_uploaded = bytes,
                                             ![req.u].status = "uploading"]
                              ELSE @,
          !.resp = Resp(TRUE, "", 0, 0, FALSE, bytes)]

ChunkEnd(i, n) ==
  /\ LoopFree
  /\ i \in DOMAIN chunk
  /\ LET o == ChunkEnd_result(i, n) IN Fits(o) /\ Becomes(o)

\* DELETE /upload/{upload_id}
cancel_upload_result(u) ==
  IF ~InProgress(u) THEN Returns(Error("not_found"))
  ELSE [State EXCEPT
          !.fs = rmtree(@, UPLOAD_PROGRESS[u].temp_dir),
          !.UPLOAD_PROGRESS = [@ EXCEPT ![u] = NoUpload],
          !.resp = Resp(TRUE, "", 0, 0, FALSE, 0)]

cancel_upload(u) ==
  /\ LoopFree
  /\ LET o == cancel_upload_result(u) IN Fits(o) /\ Becomes(o)

\* ---- DELETE /session -------------------------------------------------------
\* the directory tree after the SESSION_STORE branch of clear_session
ClearStoreBranch(h) ==
  IF InStore(h) /\ IsDuck(SESSION_STORE[h])
  THEN rmtree(fs, SESSION_STORE[h].parquet_path)
  ELSE fs

\* the SESSION_FILE_STORE branch reaches os.path.dirname of a directory that
\* is no longer there, i.e. the temp root, and calls shutil.rmtree on it
WipesRoot(h) ==
  /\ InFileStore(h)
  /\ SESSION_FILE_STORE[h].kind = "dir"
  /\ ~ClearStoreBranch(h)[SESSION_FILE_STORE[h].dir].exists
  /\ tmp_root

\* the registry and the directory tree when clear_session(h) returns
DestroyedStore(h) ==
  IF h \in Sids THEN [SESSION_STORE EXCEPT ![h] = NoSession] ELSE SESSION_STORE

\* the del of the SESSION_FILE_STORE entry left out
DestroyedFileStore_KeepsEntry(h) == SESSION_FILE_STORE

DestroyedFileStore(h) ==
  IF h \in Sids THEN [SESSION_FILE_STORE EXCEPT ![h] = NoPath] ELSE SESSION_FILE_STORE

DestroyedFs(h) ==
  IF h \notin Sids THEN fs
  ELSE IF WipesRoot(h) THEN [d \in Dirs |-> NoDir]
  ELSE IF InFileStore(h) THEN rmtree(ClearStoreBranch(h), SESSION_FILE_STORE[h].dir)
  ELSE ClearStoreBranch(h)

\* clear_session; h = 0 is the missing header.  When the temp root is wiped,
\* the root itself goes too if the process is allowed to remove it (rootGoes).
clear_session_result(h, rootGoes) ==
  [State EXCEPT
     !.SESSION_STORE = DestroyedStore(h),
     !.SESSION_FILE_STORE = DestroyedFileStore(h),
     !.fs = DestroyedFs(h),
     !.tmp_root = IF WipesRoot(h) THEN ~rootGoes ELSE @,
     !.resp = Resp(TRUE, "", 0, 0, FALSE, 0)]

\* clear_session runs on a worker thread (def, not async def), so it is not
\* held back by a join that occupies the loop.  It is one step: teardown
\* requests for one handle follow one another.  (Two that overlap would race
\* between the membership tests and the del statements.)
clear_session(h, rootGoes) ==
  /\ rootGoes => WipesRoot(h)
  /\ LET o == clear_session_result(h, rootGoes) IN Fits(o) /\ Becomes(o)

\* ---- shutdown -----------------------------------------------------------------
\* first loop: the parquet file and the directory of every DuckDB session
ShutdownSessions(f) ==
  [d \in Dirs |->
     IF \E h \in Sids : InStore(h) /\ IsDuck(SESSION_STORE[h]) /\ SESSION_STORE[h].parquet_path = d
     THEN NoDir ELSE f[d]]

\* second loop: an entry that is a directory which is no longer there sends
\* shutil.rmtree to os.path.dirname of it, the temp root
ShutdownWipesRoot ==
  /\ tmp_root
  /\ \E h \in Sids : /\ InFileStore(h)
                      /\ SESSION_FILE_STORE[h].kind = "dir"
                      /\ ~ShutdownSessions(fs)[SESSION_FILE_STORE[h].dir].exists

\* second loop: the directory of every SESSION_FILE_STORE entry
ShutdownFiles(f) ==
  IF ShutdownWipesRoot THEN [d \in Dirs |-> NoDir]
  ELSE [d \in Dirs |->
          IF \E h \in Sids : InFileStore(h) /\ SESSION_FILE_STORE[h].dir = d
          THEN NoDir ELSE f[d]]

\* the loop over UPLOAD_PROGRESS left out
ShutdownUploads_Skips(f) == f

\* third loop: temp_dir of every entry of UPLOAD_PROGRESS
ShutdownUploads(f) ==
  [d \in Dirs |->
     IF \E u \in Uids : InProgress(u) /\ UPLOAD_PROGRESS[u].temp_dir = d
     THEN NoDir ELSE f[d]]

\* shutdown_event: the registries keep their entries
shutdown_event_result(rootGoes) ==
  [State EXCEPT
     !.fs = ShutdownUploads(ShutdownFiles(ShutdownSessions(fs))),
     !.tmp_root = IF ShutdownWipesRoot THEN ~rootGoes ELSE @,
     !.stopped = TRUE,
     !.resp = Resp(TRUE, "", 0, 0, FALSE, 0)]

\* the server runs the shutdown handlers once, after the open connections
\* have finished: no request is suspended or running
Quiescent ==
  upl.pc = "idle" /\ join.pc = "idle" /\ rd.pc = "idle" /\ chunk = <<>>

shutdown_event(rootGoes) ==
  /\ ~stopped /\ Quiescent
  /\ rootGoes => ShutdownWipesRoot
  /\ LET o == shutdown_event_result(rootGoes) IN Fits(o) /\ Becomes(o)

\* ---- resolving a handle ------------------------------------------------------
\* every handle is taken to be registered
Resolves_Any(h) == h \in Sids

\* not (not x_session_id or x_session_id not in SESSION_STORE)
Resolves(h) == InStore(h)

NotFound == Error("not_found")

\* ---- POST /functions/join (replace) ----------------------------------------
JoinOutcomes == {"ok", "fn_error", "dup_keys", "missing_col", "exception"}

JoinRunning(h) == join.pc # "idle" /\ join.h = h

\* return FunctionJoinResponse(success=False, ...)
JoinFails(code) == [State EXCEPT !.join = JoinIdle, !.resp = Error(code)]

\* join_function_with_csv up to the merge: resolve the handle, load the table,
\* run the function, check the keys, merge.  newRows is the size of merged_df.
JoinBegin_result(h, outcome, newRows) ==
  IF ~Resolves(h) THEN Returns(NotFound)
  ELSE LET session == SESSION_STORE[h]
           d == session.parquet_path
       IN IF IsDuck(session) /\ ~ParquetExists(d) THEN JoinFails("file_not_found")
          ELSE IF outcome # "ok" THEN JoinFails(outcome)
          ELSE [State EXCEPT
                  !.join = [pc |-> IF IsDuck(session) THEN "merged" ELSE "swap",
                            h |-> h, path |-> d, rows |-> newRows,
                            ver |-> session.ver + 1],
                  !.rd = IF rd.pc = "scan" /\ rd.h = h
                         THEN [@ EXCEPT !.overlap = TRUE] ELSE @]

JoinBegin(h, outcome, newRows) ==
  /\ LoopFree
  /\ InStore(h) => newRows <= SESSION_STORE[h].num_rows
  /\ LET o == JoinBegin_result(h, outcome, newRows) IN Fits(o) /\ Becomes(o)

\* pq.write_table(table, parquet_path_for_update) opens the artifact for
\* writing, truncating it in place
JoinWriteOpen_result ==
  IF ~DirExists(join.path) THEN JoinFails("exception")
  ELSE [State EXCEPT
          !.fs = [@ EXCEPT ![join.path].pq =
                    [exists |-> TRUE, state |-> "partial", rows |-> join.rows,
                     ver |-> join.ver]],
          !.join = [@ EXCEPT !.pc = "writing"]]

JoinWriteOpen ==
  /\ join.pc = "merged"
  /\ LET o == JoinWriteOpen_result IN Fits(o) /\ Becomes(o)

\* pq.write_table returns: all row groups and the footer are on disk
JoinWriteClose_result ==
  [State EXCEPT
     !.fs = IF ParquetExists(join.path)
            THEN [@ EXCEPT ![join.path].pq.state = "complete"] ELSE @,
     !.join = [@ EXCEPT !.pc = "swap"]]

JoinWriteClose ==
  /\ join.pc = "writing"
  /\ LET o == JoinWriteClose_result IN Fits(o) /\ Becomes(o)

\* the metadata of a rewritten DuckDB session, or the merged DataFrame
JoinedSession(j) ==
  IF j.path # 0
  THEN [tier |-> "Columnar", parquet_path |-> j.path, num_rows |-> j.rows, ver |-> j.ver,
        invalid_dates |-> 0, full |-> FALSE]
  ELSE [tier |-> "Memory", parquet_path |-> 0, num_rows |-> j.rows, ver |-> j.ver,
        invalid_dates |-> 0, full |-> TRUE]

\* SESSION_STORE[x_session_id] = ...; for a DuckDB session date_min.strftime
\* comes first and raises on NaT when merged_df is empty
JoinSwap_result ==
  IF join.path # 0 /\ join.rows = 0 THEN JoinFails("exception")
  ELSE [State EXCEPT
          !.SESSION_STORE = [@ EXCEPT ![join.h] = JoinedSession(join)],
          !.join = JoinIdle,
          !.resp = Resp(TRUE, "", 0, 0, FALSE, 0)]

JoinSwap ==
  /\ join.pc = "swap"
  /\ LET o == JoinSwap_result IN Fits(o) /\ Becomes(o)

\* ---- query-time operations -------------------------------------------------
\* handlers declared with def run on worker threads, concurrently with the loop
ThreadOps == {"meta", "insights", "pivot", "metrics"}
\* handlers declared with async def run on the loop
LoopOps == {"preview", "download", "session"}

\* the handler filters and sorts the stored DataFrame itself
Worked_InPlace(store, h) == [store EXCEPT ![h].ver = @ + 1]

\* working = df.copy(): the handlers filter, sort and add columns on a copy,
\* the DataFrame object in SESSION_STORE is never mutated
Worked(store, h) == store

\* get_meta, compute_insights, pivot, compute_metrics (via get_session_df) up
\* to and including  session = SESSION_STORE[x_session_id]  and everything
\* they do with a resident DataFrame; a DuckDB session is scanned in ReadScan
ReadResolve_result(op, h) ==
  IF ~Resolves(h) THEN Returns(NotFound)
  ELSE LET session == SESSION_STORE[h] IN
    IF ~IsDuck(session) THEN
      IF op = "pivot" THEN Returns(Error("unsupported"))
      ELSE [State EXCEPT
              !.SESSION_STORE = Worked(@, h),
              !.resp = Saw(Resp(TRUE, "", 0, 0, TRUE, 0),
                           session.ver, "complete", session.ver, JoinRunning(h))]
    ELSE IF op = "meta" THEN
      \* answered from the stored dict, the artifact is not opened
      Returns(Saw(Resp(TRUE, "", 0, 0, FALSE, 0), session.ver, "none", 0, JoinRunning(h)))
    ELSE
      [State EXCEPT
         !.rd = [pc |-> "scan", op |-> op, h |-> h, path |-> session.parquet_path,
                 ver |-> session.ver, overlap |-> JoinRunning(h)]]

ReadResolve(op, h) ==
  /\ rd.pc = "idle"
  /\ LET o == ReadResolve_result(op, h) IN Fits(o) /\ Becomes(o)

\* the artifact as the scan finds it on disk now
Scanned == IF DirExists(rd.path) THEN fs[rd.path].pq ELSE NoPq

\* DuckDB opens read_parquet(parquet_path).  A file that is being rewritten
\* may fail to open or may be read as it is; answered says which.
ReadScan_result(answered) ==
  LET pq == Scanned
      over == rd.overlap \/ JoinRunning(rd.h)
  IN [State EXCEPT
        !.rd = RdIdle,
        !.resp = IF ~pq.exists
                 THEN Saw(Error("file_not_found"), rd.ver, "missing", 0, over)
                 ELSE Saw(IF answered THEN Resp(TRUE, "", 0, 0, TRUE, 0)
                          ELSE Resp(FALSE, "exception", 0, 0, TRUE, 0),
                          rd.ver, pq.state, pq.ver, over)]

ReadScan(answered) ==
  /\ rd.pc = "scan"
  /\ Scanned.state # "partial" => answered
  /\ LET o == ReadScan_result(answered) IN Fits(o) /\ Becomes(o)

\* preview_session_data, download_session_data, get_session_data: coroutines
\* without an await, so one step of the loop
data_read_result(op, h) ==
  IF ~Resolves(h) THEN Returns(NotFound)
  ELSE LET session == SESSION_STORE[h]
           d == session.parquet_path
       IN IF ~IsDuck(session) THEN
            Returns(Saw(Resp(TRUE, "", 0, 0, TRUE, 0),
                        session.ver, "complete", session.ver, FALSE))
          ELSE IF op = "session" THEN
            \* metadata only, rows: []
            Returns(Saw(Resp(TRUE, "", 0, 0, FALSE, 0), session.ver, "none", 0, FALSE))
          ELSE IF ~ParquetExists(d) THEN
            Returns(Saw(Error("file_not_found"), session.ver, "missing", 0, FALSE))
          ELSE
            Returns(Saw(Resp(TRUE, "", 0, 0, TRUE, 0),
                        session.ver, fs[d].pq.state, fs[d].pq.ver, FALSE))

data_read(op, h) ==
  /\ LoopFree
  /\ LET o == data_read_result(op, h) IN Fits(o) /\ Becomes(o)

\* ---- the system ------------------------------------------------------------
Upload ==
  \/ \E isCsv \in BOOLEAN : UploadBegin(isCsv)
  \/ \E n \in 1..CHUNK_SIZE : stream_file_to_disk(n)
  \/ \E c \in Contents(upl.total) : upload_csv(c)

ChunkedUpload ==
  \/ \E isCsv \in BOOLEAN, size \in {1, MAX_FILE_SIZE + 1} :
       init_chunked_upload(isCsv, size)
  \/ \E u \in UploadIds, n \in ChunkSizes : upload_chunk(u, n)
  \/ \E u \in UploadIds : get_upload_progress(u)
  \/ \E u \in UploadIds : \E c \in Assembled(u) : complete_chunked_upload(u, c)
  \/ \E u \in UploadIds : cancel_upload(u)

Destroy == \E h \in Handles, rootGoes \in BOOLEAN : clear_session(h, rootGoes)

Replace ==
  \/ \E h \in Handles, outcome \in JoinOutcomes, newRows \in RowCounts :
       JoinBegin(h, outcome, newRows)
  \/ JoinWriteOpen
  \/ JoinWriteClose
  \/ JoinSwap

Query ==
  \/ \E op \in ThreadOps, h \in Handles : ReadResolve(op, h)
  \/ \E answered \in BOOLEAN : ReadScan(answered)
  \/ \E op \in LoopOps, h \in Handles : data_read(op, h)

\* ingestion and teardown
Next == Upload \/ ChunkedUpload \/ Destroy

Spec == Init /\ [][Next]_vars

\* sessions under replace, queries and teardown
NextReplace == Upload \/ Destroy \/ Replace \/ Query

SpecReplace == Init /\ [][NextReplace]_vars

\* everything but calc
storeVars == <<SESSION_STORE, SESSION_FILE_STORE, UPLOAD_PROGRESS, fs, tmp_root,
               nextSid, nextUid, nextDir, upl, join, rd, chunk, stopped>>

\* ---- the invalid-date ratio of the large-file path -------------------------
\* a well-formed file of the large path with rows data rows, bad of them
\* with an unparseable date
InitParse ==
  /\ InitStore
  /\ calc \in {c \in [fn : {"parse"}, rows : 0..MaxParseRows, bad : 0..MaxParseBad,
                       done : {FALSE}, ok : {FALSE}, code : {""}] : c.bad <= c.rows}

\* process_csv_to_parquet applied to the file
ParseLarge ==
  /\ calc.fn = "parse" /\ ~calc.done
  /\ LET csv == [exists |-> TRUE, size |-> DUCKDB_THRESHOLD, read |-> TRUE, hdr |-> "ok",
                 rows |-> calc.rows, bad |-> calc.bad, fault |-> 0]
         r == process_csv_to_parquet(csv, NoPq, 1)
     IN calc' = [calc EXCEPT !.done = TRUE, !.ok = r.ok, !.code = r.code]
  /\ UNCHANGED storeVars

SpecParse == InitParse /\ [][ParseLarge]_vars

\* ---- overlapping chunk requests and progress polls -------------------------
NextChunk ==
  \/ \E isCsv \in BOOLEAN, size \in {1, MAX_FILE_SIZE + 1} :
       init_chunked_upload(isCsv, size)
  \/ \E u \in UploadIds : ChunkBegin(u)
  \/ \E i \in 1..MaxInFlight, n \in ChunkSizes : ChunkEnd(i, n)
  \/ \E u \in UploadIds : get_upload_progress(u)
  \/ \E u \in UploadIds : cancel_upload(u)

SpecChunk == Init /\ [][NextChunk]_vars

\* ---- the process up to its shutdown ----------------------------------------
\* no request is served once the shutdown handler has run
NextShutdown ==
  \/ ~stopped /\ (Upload \/ ChunkedUpload \/ Destroy \/ Replace)
  \/ \E rootGoes \in BOOLEAN : shutdown_event(rootGoes)

SpecShutdown == Init /\ [][NextShutdown]_vars

\* ---- session data seen by the query paths ------------------------------------
\* The table of a session has the columns cohort, date and one metric column
\* x.  A cell of x is Null, or the number i (numeric column), or the i-th of a
\* few strings that are not numbers (non-numeric column).
Cohorts == {"A", "B"}
\* the dates in the table: the first and the last day
Days == {1, 2}
Null == 0 - 1
Cells == {Null, 0, 1}

\* tables of up to MaxQRows rows, one per multiset of rows
Tables ==
  LET Key(r) == ((IF r.cohort = "A" THEN 0 ELSE 1) * Cardinality(Days) + (r.date - 1)) * Cardinality(Cells)
            + r.x + 1
  IN UNION {{t \in [1..n -> [cohort : Cohorts, date : Days, x : Cells]] :
               \A i \in 1..(n - 1) : Key(t[i]) <= Key(t[i + 1])} : n \in 0..MaxQRows}

\* ---- float values in a response ----------------------------------------------
\* a float as a fraction in lowest terms, float('nan'), or None / SQL NULL
Num(n, d) ==
  LET a == IF d < 0 THEN 0 - n ELSE n
      b == IF d < 0 THEN 0 - d ELSE d
      g == CHOOSE k \in 1..b : /\ a % k = 0 /\ b % k = 0
                               /\ \A j \in (k + 1)..b : ~(a % j = 0 /\ b % j = 0)
  IN [k |-> "num", n |-> a \div g, d |-> b \div g]
NaN == [k |-> "nan", n |-> 0, d |-> 1]
None == [k |-> "null", n |-> 0, d |-> 1]

\* a - b on floats
Minus(a, b) ==
  IF a.k = "nan" \/ b.k = "nan" THEN NaN ELSE Num(a.n * b.d - b.n * a.d, a.d * b.d)

\* the sum of the cells s[i], i in I
RECURSIVE Total(_, _)
Total(s, I) ==
  IF I = {} THEN 0 ELSE LET i == CHOOSE j \in I : TRUE IN s[i] + Total(s, I \ {i})

\* the median of the cells s[i], i in I (I not empty): the middle one, or the
\* mean of the two middle ones
Median(s, I) ==
  LET n == Cardinality(I)
      Kth(k) == CHOOSE v \in {s[i] : i \in I} :
                  /\ Cardinality({i \in I : s[i] < v}) < k
                  /\ Cardinality({i \in I : s[i] <= v}) >= k
  IN IF n % 2 = 1 THEN Num(Kth((n + 1) \div 2), 1)
     ELSE Num(Kth(n \div 2) + Kth(n \div 2 + 1), 2)

\* _agg_series of compute_insights_pandas on the column x of the rows t
agg_series(t, numeric, agg) ==
  LET s == [i \in DOMAIN t |-> t[i].x]
      nonnull == {i \in DOMAIN s : s[i] # Null}
      \* pd.to_numeric(s, errors="coerce"): a string that is no number is NaN
      s_num == IF numeric THEN nonnull ELSE {}
  IN CASE agg = "count" -> Num(Cardinality(nonnull), 1)
       [] agg = "nunique" -> Num(Cardinality({s[i] : i \in nonnull}), 1)
       [] agg = "sum" -> Num(Total(s, s_num), 1)
       [] agg = "mean" -> IF s_num = {} THEN NaN ELSE Num(Total(s, s_num), Cardinality(s_num))
       [] agg = "median" -> IF s_num = {} THEN NaN ELSE Median(s, s_num)

\* the aggregate get_sql_agg builds, evaluated by DuckDB on the column x of
\* the rows t of a group; SUM, AVG and MEDIAN of no value are NULL
get_sql_agg(t, numeric, agg) ==
  LET s == [i \in DOMAIN t |-> t[i].x]
      nonnull == {i \in DOMAIN s : s[i] # Null}
  IN CASE agg = "count" -> Num(Cardinality(nonnull), 1)
       [] agg = "nunique" -> Num(Cardinality({s[i] : i \in nonnull}), 1)
       [] ~numeric /\ agg \in {"sum", "mean", "median"} -> Num(Cardinality(nonnull), 1)
       [] numeric /\ nonnull = {} /\ agg \in {"sum", "mean", "median"} -> None
       [] numeric /\ nonnull # {} /\ agg = "sum" -> Num(Total(s, nonnull), 1)
       [] numeric /\ nonnull # {} /\ agg = "mean" ->
            Num(Total(s, nonnull), Cardinality(nonnull))
       [] numeric /\ nonnull # {} /\ agg = "median" -> Median(s, nonnull)

\* float(v) if pd.notna(v) else 0.0  /  COALESCE(v, 0)
NotNaOrZero(v) == IF v.k = "num" THEN v ELSE Num(0, 1)

\* ---- insights requests -------------------------------------------------------
\* a DateRange; 0 is a date that was not given
NoPeriod == [given |-> FALSE, start_date |-> 0, end_date |-> 0]

\* AND date >= start AND date <= end, each part only if the bound is given
date_filter(date, start, end) ==
  (start = 0 \/ date >= start) /\ (end = 0 \/ date <= end)

\* transformations.filter_by_date_range: the rows of the inclusive range; a
\* bound that is None does not restrict
filter_by_date_range(t, start, end) ==
  SelectSeq(t, LAMBDA r : (start = 0 \/ r.date >= start) /\ (end = 0 \/ r.date <= end))

\* transformations.get_cohort: the rows of one cohort
get_cohort(t, cohort) == SelectSeq(t, LAMBDA r : r.cohort = cohort)

\* the percentage left undefined only for a baseline that is exactly zero
Pct_ZeroForZero(delta, base) ==
  IF base.k = "num" /\ base.n = 0 THEN Num(0, 1)
  ELSE IF delta.k = "nan" \/ base.k = "nan" THEN NaN
  ELSE Num(100 * delta.n * base.d, delta.d * base.n)

\* (delta / base * 100.0) if base != 0 else None
Pct(delta, base) ==
  IF base.k = "num" /\ base.n = 0 THEN None
  ELSE IF delta.k = "nan" \/ base.k = "nan" THEN NaN
  ELSE Num(100 * delta.n * base.d, delta.d * base.n)

\* the InsightsSummaryRow built from the four scalars (the same statements in
\* both tiers)
InsightsSummaryRow(control_pre, control_post, test_pre, test_post) ==
  LET control_delta == Minus(control_post, control_pre)
      test_delta == Minus(test_post, test_pre)
      diff_in_diff == Minus(test_delta, control_delta)
  IN [control_pre |-> control_pre, control_post |-> control_post,
      control_delta |-> control_delta,
      control_delta_pct |-> Pct(control_delta, control_pre),
      test_pre |-> test_pre, test_post |-> test_post,
      test_delta |-> test_delta,
      test_delta_pct |-> Pct(test_delta, test_pre),
      diff_in_diff |-> diff_in_diff,
      diff_in_diff_pct |-> Pct(diff_in_diff, control_pre)]

\* what a query path returns: connected, a DuckDB connection was opened;
\* queried, an aggregation ran on the session data; columns and data, the
\* header and the rows of a pivot
Answer(summary, time_series, connected, columns, data) ==
  [ok |-> TRUE, code |-> "", connected |-> connected, queried |-> TRUE,
   summary |-> summary, time_series |-> time_series, columns |-> columns, data |-> data]

\* raise HTTPException(status_code=400, ...) before anything ran
Rejects(code) ==
  [ok |-> FALSE, code |-> code, connected |-> FALSE, queried |-> FALSE,
   summary |-> <<>>, time_series |-> {}, columns |-> <<>>, data |-> {}]

\* the union of the two periods: ts_start is the earliest start given and
\* ts_end the latest end given (0: none)
ts_window(req) ==
  LET given == {q \in {req.pre_period, req.post_period} : q.given}
      starts == {p.start_date : p \in given} \ {0}
      ends == {p.end_date : p \in given} \ {0}
  IN [ts_start |-> IF starts = {} THEN 0 ELSE CHOOSE m \in starts : \A o \in starts : m <= o,
      ts_end |-> IF ends = {} THEN 0 ELSE CHOOSE m \in ends : \A o \in ends : m >= o]

\* only test_cohort is looked at
CohortMissing_TestOnly(req) == req.test_cohort = ""

\* not payload.test_cohort or not payload.control_cohort (DuckDB); the else
\* branch of "if payload.test_cohort and payload.control_cohort" (pandas)
CohortMissing(req) == req.test_cohort = "" \/ req.control_cohort = ""

\* compute_insights_duckdb on the artifact holding table t
compute_insights_duckdb(req, t, numeric) ==
  IF req.metrics = 0 /\ req.also = "" THEN Rejects("no_metrics")
  ELSE IF CohortMissing(req) THEN Rejects("cohort_required")
  ELSE
    LET \* WHERE cohort IN (test, control); CASE WHEN cohort = test THEN 'test' ELSE 'control'
        sel == SelectSeq(t, LAMBDA r : r.cohort \in {req.test_cohort, req.control_cohort})
        type(r) == IF r.cohort = req.test_cohort THEN "test" ELSE "control"
        group(c, start, end) ==
          SelectSeq(sel, LAMBDA r : type(r) = c /\ date_filter(r.date, start, end))
        day(c, d) ==
          SelectSeq(sel, LAMBDA r : /\ type(r) = c /\ r.date = d
                                    /\ date_filter(r.date, ts_window(req).ts_start, ts_window(req).ts_end))
        \* a cohort_type without rows has no row in pre_data / post_data
        \* get_metric_sql_and_agg: a column that is not in the table but reads
        \* num2denom with both parts in the table is the ratio
        \* SUM(CAST(denom AS DOUBLE)) / NULLIF(SUM(CAST(num AS DOUBLE)), 0);
        \* any other column that is not in the table is skipped
        sql_agg(g, col) ==
          IF col = "x" THEN get_sql_agg(g, numeric, req.agg_func)
          ELSE IF \A i \in DOMAIN g : g[i].x = Null THEN None
          ELSE IF Total([i \in DOMAIN g |-> g[i].x], {i \in DOMAIN g : g[i].x # Null}) = 0
            THEN None
          ELSE Num(1, 1)
        specs == (IF req.metrics = 1 THEN <<"x">> ELSE <<>>)
                 \o (IF req.also = "x2x" THEN <<"x2x">> ELSE <<>>)
        \* the cast of a string that is no number fails the query
        scanned == SelectSeq(sel, LAMBDA r :
                     \/ date_filter(r.date, ts_window(req).ts_start, ts_window(req).ts_end)
                     \/ date_filter(r.date, req.pre_period.start_date, req.pre_period.end_date)
                     \/ date_filter(r.date, req.post_period.start_date, req.post_period.end_date))
        cast_fails == /\ req.also = "x2x" /\ ~numeric
                      /\ \E i \in DOMAIN scanned : scanned[i].x # Null
        value(c, p, col) ==
          LET g == group(c, p.start_date, p.end_date)
          IN IF g = <<>> THEN Num(0, 1) ELSE NotNaOrZero(sql_agg(g, col))
    IN IF cast_fails
       THEN [Rejects("exception") EXCEPT !.connected = TRUE, !.queried = TRUE]
       ELSE Answer([i \in DOMAIN specs |->
                      InsightsSummaryRow(value("control", req.pre_period, specs[i]),
                                         value("control", req.post_period, specs[i]),
                                         value("test", req.pre_period, specs[i]),
                                         value("test", req.post_period, specs[i]))],
                   {[date |-> x[2], cohort_type |-> x[1], metric |-> x[3],
                     value |-> NotNaOrZero(sql_agg(day(x[1], x[2]), x[3]))] :
                      x \in {y \in {"test", "control"} \X Days \X {specs[i] : i \in DOMAIN specs} :
                               day(y[1], y[2]) # <<>>}},
                   TRUE, <<>>, {})

\* compute_insights_pandas on the DataFrame t
compute_insights_pandas(req, t, numeric) ==
  IF req.metrics = 0 /\ req.also = "" THEN Rejects("no_metrics")
  ELSE IF CohortMissing(req) THEN Rejects("cohort_required")
  ELSE
    LET \* working = pd.concat([test_df, control_df]) with cohort_type set
        working(c) == get_cohort(t, IF c = "test" THEN req.test_cohort ELSE req.control_cohort)
        ts_df(c) == IF ts_window(req).ts_start # 0 \/ ts_window(req).ts_end # 0
                    THEN filter_by_date_range(working(c), ts_window(req).ts_start, ts_window(req).ts_end)
                    ELSE working(c)
        day(c, d) == SelectSeq(ts_df(c), LAMBDA r : r.date = d)
        period_df(c, p) == IF p.given
                           THEN filter_by_date_range(working(c), p.start_date, p.end_date)
                           ELSE working(c)
        period_val(c, p) ==
          IF period_df(c, p) = <<>> THEN Num(0, 1)
          ELSE agg_series(period_df(c, p), numeric, req.agg_func)
        \* if col not in working.columns: continue
        specs == IF req.metrics = 1 THEN <<"x">> ELSE <<>>
    IN Answer([i \in DOMAIN specs |->
                 InsightsSummaryRow(period_val("control", req.pre_period),
                                    period_val("control", req.post_period),
                                    period_val("test", req.pre_period),
                                    period_val("test", req.post_period))],
              {[date |-> x[2], cohort_type |-> x[1], metric |-> x[3],
                value |-> NotNaOrZero(agg_series(day(x[1], x[2]), numeric, req.agg_func))] :
                 x \in {y \in {"test", "control"} \X Days \X {specs[i] : i \in DOMAIN specs} :
                          day(y[1], y[2]) # <<>>}},
              FALSE, <<>>, {})

\* ---- pivot ---------------------------------------------------------------------
\* every filter becomes a clause of the WHERE part
Skipped_Never(f, all_cols) == FALSE

\* if f.column not in all_cols: continue
Skipped(f, all_cols) == f.column \notin all_cols

\* compute_pivot_duckdb on the artifact holding table t.  A column of the
\* header is a row field or the label <<column key, col, agg>> of a value
\* column; a row of data is its row key and its cells, in header order.
compute_pivot_duckdb(req, t, numeric) ==
  LET all_cols == {"cohort", "date", "x"}
      row_fields == SelectSeq(req.row_fields, LAMBDA c : c \in all_cols)
      col_fields == SelectSeq(req.col_fields, LAMBDA c : c \in all_cols)
      values == SelectSeq(req.values, LAMBDA v : v.col \in all_cols)
      \* equals and not_equals with a string; an "in" whose value is no list
      \* adds no clause
      where_parts == SelectSeq(req.filters, LAMBDA f :
                       ~Skipped(f, all_cols) /\ f.operator \in {"equals", "not_equals"})
      \* a clause on a column the rows do not have holds for no row
      where(r) == \A i \in DOMAIN where_parts :
                    LET f == where_parts[i] IN
                      /\ f.column \in DOMAIN r
                      /\ (r[f.column] = f.value) <=> (f.operator = "equals")
      sel == SelectSeq(t, where)
      group_cols == row_fields \o col_fields
      key(r) == [i \in DOMAIN group_cols |-> r[group_cols[i]]]
      \* the rows of df: one per group; without GROUP BY the aggregates of
      \* all selected rows form one row, whatever was selected
      df == IF group_cols = <<>> THEN {<<>>} ELSE {key(sel[i]) : i \in DOMAIN sel}
      group(k) == SelectSeq(sel, LAMBDA r : key(r) = k)
      \* the aggregate of a group; float(NaN) is cleaned to None
      value(g, v) ==
        LET s == [i \in DOMAIN g |-> g[i].x]
            nonnull == {i \in DOMAIN s : s[i] # Null}
            agg == v.agg
        IN CASE agg = "countDistinct" -> Num(Cardinality({s[i] : i \in nonnull}), 1)
             [] agg = "count" \/ (agg # "countDistinct" /\ ~numeric) ->
                  Num(Cardinality(nonnull), 1)
             [] agg \notin {"count", "countDistinct"} /\ numeric /\ nonnull = {} -> None
             [] agg = "sum" /\ numeric /\ nonnull # {} -> Num(Total(s, nonnull), 1)
             [] agg = "avg" /\ numeric /\ nonnull # {} ->
                  Num(Total(s, nonnull), Cardinality(nonnull))
             [] agg = "min" /\ numeric /\ nonnull # {} ->
                  Num(CHOOSE m \in {s[i] : i \in nonnull} : \A i \in nonnull : m <= s[i], 1)
             [] agg = "max" /\ numeric /\ nonnull # {} ->
                  Num(CHOOSE m \in {s[i] : i \in nonnull} : \A i \in nonnull : m >= s[i], 1)
      n == Len(row_fields)
      m == Len(values)
      row_keys == {SubSeq(k, 1, n) : k \in df}
      col_keys == {SubSeq(k, n + 1, Len(k)) : k \in df}
      \* sorted by the joined text of the key: a date key sorts by date
      sorted_col_keys == CHOOSE q \in [1..Cardinality(col_keys) -> col_keys] :
                           \A i, j \in DOMAIN q : i < j => q[i][1] < q[j][1]
      label(ck, v) == <<ck, v.col, v.agg>>
  IN IF values = <<>> THEN Answer(<<>>, {}, TRUE, row_fields, {})
     ELSE IF df = {} THEN
       Answer(<<>>, {}, TRUE,
              IF col_fields = <<>>
              THEN row_fields \o [i \in 1..m |-> label(<<>>, values[i])]
              ELSE row_fields,
              {})
     ELSE IF col_fields = <<>> THEN
       Answer(<<>>, {}, TRUE,
              row_fields \o [i \in 1..m |-> label(<<>>, values[i])],
              {[key |-> rk, cells |-> [i \in 1..m |-> value(group(rk), values[i])]] :
                 rk \in row_keys})
     ELSE
       LET ck(i) == sorted_col_keys[((i - 1) \div m) + 1]
           v(i) == values[((i - 1) % m) + 1]
           cols == 1..(Cardinality(col_keys) * m)
       IN Answer(<<>>, {}, TRUE,
                 row_fields \o [i \in cols |-> label(ck(i), v(i))],
                 {[key |-> rk,
                   cells |-> [i \in cols |->
                                IF group(rk \o ck(i)) = <<>> THEN None
                                ELSE value(group(rk \o ck(i)), v(i))]] : rk \in row_keys})

\* ---- the query paths applied to a session -------------------------------------
\* requests with both periods complete, requests with a period or a bound
\* missing, requests with a cohort or the metrics missing, and requests with
\* a further metric spec (also) on a column the table does not have.  metrics
\* is the number of specs on x, all with agg_func.
InsightsRequests ==
  LET Windows == {p \in [given : {TRUE}, start_date : Days, end_date : Days] :
                    p.start_date <= p.end_date}
      Partial == {NoPeriod} \cup {p \in [given : {TRUE}, start_date : {0} \cup Days,
                                          end_date : {0} \cup Days] :
                                     p.start_date = 0 \/ p.end_date = 0}
      First == [given |-> TRUE, start_date |-> 1, end_date |-> 1]
      Last == [given |-> TRUE, start_date |-> 2, end_date |-> 2]
  IN [test_cohort : {"A"}, control_cohort : Cohorts, pre_period : Windows,
      post_period : Windows, agg_func : {"sum", "count", "nunique", "mean", "median"},
      metrics : {1}, also : {""}]
     \cup [test_cohort : {"A"}, control_cohort : {"B"}, pre_period : Partial,
           post_period : {Last}, agg_func : {"sum"}, metrics : {1}, also : {""}]
     \cup [test_cohort : {"A"}, control_cohort : {"B"}, pre_period : {First},
           post_period : Partial, agg_func : {"sum"}, metrics : {1}, also : {""}]
     \cup {r \in [test_cohort : {"", "A"}, control_cohort : {"", "B"}, pre_period : {First},
                  post_period : {Last}, agg_func : {"sum"}, metrics : {0, 1}, also : {""}] :
             r.test_cohort = "" \/ r.control_cohort = "" \/ r.metrics = 0}
     \cup [test_cohort : {"A"}, control_cohort : {"B"}, pre_period : {First},
           post_period : {Last}, agg_func : {"sum", "mean"}, metrics : {1},
           also : {"y", "x2x"}]

\* one aggregation of x by cohort or of the whole table; and requests with row
\* and column fields, one or two value specs and filters, where y is a column
\* the table does not have and Z a cohort it does not have
PivotRequests ==
  LET ValueSpec(col, agg) == [col |-> col, agg |-> agg]
      Filter(column, operator, value) ==
        [column |-> column, operator |-> operator, value |-> value]
  IN [row_fields : {<<>>, <<"cohort">>}, col_fields : {<<>>},
      values : {<<ValueSpec("x", agg)>> : agg \in {"avg", "min", "max", "count", "countDistinct"}},
      filters : {<<>>}]
     \cup [row_fields : {<<>>, <<"cohort">>}, col_fields : {<<>>, <<"date">>},
           values : {<<ValueSpec("x", "sum")>>, <<ValueSpec("y", "sum")>>,
                     <<ValueSpec("x", "sum"), ValueSpec("y", "sum")>>,
                     <<ValueSpec("y", "sum"), ValueSpec("x", "count")>>,
                     <<ValueSpec("x", "sum"), ValueSpec("x", "count")>>},
           filters : {<<>>, <<Filter("cohort", "equals", "A")>>,
                      <<Filter("cohort", "equals", "Z")>>,
                      <<Filter("y", "equals", "A")>>, <<Filter("y", "in", "A")>>,
                      <<Filter("y", "not_equals", "A"), Filter("cohort", "equals", "A")>>}]

InitQuery ==
  /\ InitStore
  /\ \/ calc \in [fn : {"insights"}, rows : Tables, numeric : BOOLEAN,
                  req : InsightsRequests, tier : {"none"}, out : {Rejects("none")}]
     \/ calc \in [fn : {"pivot"}, rows : Tables, numeric : BOOLEAN,
                  req : PivotRequests, tier : {"none"}, out : {Rejects("none")}]

\* POST /insights on a session of the given tier holding the table
compute_insights_result(tier, req, t, numeric) ==
  IF tier = "Columnar" THEN compute_insights_duckdb(req, t, numeric)
  ELSE compute_insights_pandas(req, t, numeric)

compute_insights(tier) ==
  /\ calc.fn = "insights" /\ calc.tier = "none"
  /\ calc' = [calc EXCEPT !.tier = tier,
                !.out = compute_insights_result(tier, calc.req, calc.rows, calc.numeric)]
  /\ UNCHANGED storeVars

\* POST /pivot: only a DuckDB session is served
pivot_result(tier, req, t, numeric) ==
  IF tier # "Columnar" THEN Rejects("pivot_unsupported")
  ELSE compute_pivot_duckdb(req, t, numeric)

pivot(tier) ==
  /\ calc.fn = "pivot" /\ calc.tier = "none"
  /\ calc' = [calc EXCEPT !.tier = tier,
                !.out = pivot_result(tier, calc.req, calc.rows, calc.numeric)]
  /\ UNCHANGED storeVars

NextQuery == \E tier \in {"Memory", "Columnar"} : compute_insights(tier) \/ pivot(tier)

SpecQuery == InitQuery /\ [][NextQuery]_vars

\* ---- metadata of an upload and of the session it registers -------------------
\* The uploaded file has the rows given one by one (date 0: a date that does
\* not parse) followed by pad further rows of cohort "A" dated day 1.

\* COUNT(date): only the rows with a date
CountStar_Dated(rows, pad) == Cardinality({i \in DOMAIN rows : rows[i].date # 0}) + pad

\* SELECT COUNT(*) on the artifact / df.shape[0] / len(df)
CountStar(rows, pad) == Len(rows) + pad

\* the cohorts, sorted, and the first and last date of a table: MIN and MAX
\* skip NULL dates and are NULL without any date
Described(rows, pad) ==
  LET dates == ({rows[i].date : i \in DOMAIN rows} \ {0}) \cup (IF pad > 0 THEN {1} ELSE {})
  IN [cohorts |-> {rows[i].cohort : i \in DOMAIN rows} \cup (IF pad > 0 THEN {"A"} ELSE {}),
      date_min |-> IF dates = {} THEN 0 ELSE CHOOSE m \in dates : \A o \in dates : m <= o,
      date_max |-> IF dates = {} THEN 0 ELSE CHOOSE m \in dates : \A o \in dates : m >= o]

\* the try block of upload_csv on a readable file with the required columns:
\* the UploadResponse, the entry of SESSION_STORE (the DataFrame, or the
\* metadata dict of process_csv_to_parquet) and the rows written to the artifact
Uploaded(tier, rows, pad) ==
  LET bad == Cardinality({i \in DOMAIN rows : rows[i].date = 0})
      total_rows == Len(rows) + pad
      Fails == [ok |-> FALSE, num_rows |-> 0, cohorts |-> {}, date_min |-> 0, date_max |-> 0,
                session |-> [tier |-> "none"], written |-> 0]
  IN IF tier = "Memory" THEN
       \* invalid dates are refused; date_min.strftime raises on an empty table
       IF bad > 0 \/ total_rows = 0 THEN Fails
       ELSE [ok |-> TRUE, num_rows |-> CountStar(rows, pad),
             cohorts |-> Described(rows, pad).cohorts,
             date_min |-> Described(rows, pad).date_min,
             date_max |-> Described(rows, pad).date_max,
             session |-> [tier |-> "Memory", rows |-> rows, pad |-> pad],
             written |-> 0]
     ELSE
       IF InvalidPctExceeds(bad, total_rows) THEN Fails
       ELSE LET session_metadata ==
                  [tier |-> "Columnar", num_rows |-> CountStar(rows, pad),
                   cohorts |-> Described(rows, pad).cohorts,
                   date_min |-> Described(rows, pad).date_min,
                   date_max |-> Described(rows, pad).date_max]
            IN [ok |-> TRUE, num_rows |-> session_metadata.num_rows,
                cohorts |-> session_metadata.cohorts,
                date_min |-> session_metadata.date_min,
                date_max |-> session_metadata.date_max,
                session |-> session_metadata, written |-> total_rows]

\* GET /meta: the stored metadata of a DuckDB session, or the metadata
\* computed from the DataFrame; no row count is reported (0)
get_meta(session) ==
  IF session.tier = "Columnar"
  THEN [cohorts |-> session.cohorts, date_min |-> session.date_min,
        date_max |-> session.date_max, row_count |-> 0]
  ELSE [cohorts |-> Described(session.rows, session.pad).cohorts,
        date_min |-> Described(session.rows, session.pad).date_min,
        date_max |-> Described(session.rows, session.pad).date_max, row_count |-> 0]

\* GET /data/session
get_session_data(session) ==
  IF session.tier = "Columnar"
  THEN [cohorts |-> session.cohorts, date_min |-> session.date_min,
        date_max |-> session.date_max, row_count |-> session.num_rows]
  ELSE [cohorts |-> Described(session.rows, session.pad).cohorts,
        date_min |-> Described(session.rows, session.pad).date_min,
        date_max |-> Described(session.rows, session.pad).date_max,
        row_count |-> CountStar(session.rows, session.pad)]

InitMeta ==
  /\ InitStore
  /\ calc \in [fn : {"upload"}, tier : {"Memory", "Columnar"}, pad : {0, MaxPad},
               rows : UNION {[1..n -> [cohort : Cohorts, date : {0} \cup Days]] :
                               n \in 0..MaxQRows},
               stage : {"file"}, op : {"none"}]

\* the upload of the file
UploadTable ==
  /\ calc.fn = "upload" /\ calc.stage = "file"
  /\ calc' = [fn |-> "upload", tier |-> calc.tier, pad |-> calc.pad, rows |-> calc.rows,
              stage |-> "session", op |-> "none",
              up |-> Uploaded(calc.tier, calc.rows, calc.pad)]
  /\ UNCHANGED storeVars

\* a meta or data-session call with the handle the upload returned
ReadBack(op) ==
  /\ calc.fn = "upload" /\ calc.stage = "session" /\ calc.up.ok
  /\ calc' = [fn |-> "upload", tier |-> calc.tier, pad |-> calc.pad, rows |-> calc.rows,
              stage |-> "read", op |-> op, up |-> calc.up,
              back |-> IF op = "meta" THEN get_meta(calc.up.session)
                       ELSE get_session_data(calc.up.session)]
  /\ UNCHANGED storeVars

SpecMeta == InitMeta /\ [][UploadTable \/ \E op \in {"meta", "data"} : ReadBack(op)]_vars

\* ==== properties ==========================================================

\* C1: once complete(upload_id) has returned a session, every later complete
\* call with the same upload_id is rejected with an error and registers no new
\* session (the assembled file is not ingested a second time).
C1_CompleteRejectedAfterSuccess ==
  \A u \in Uids :
    (LoopFree /\ InProgress(u) /\ UPLOAD_PROGRESS[u].session_id # 0) =>
      \A c \in Assembled(u) :
        LET o == complete_chunked_upload_result(u, c)
        IN Fits(o) => (~o.resp.ok /\ o.SESSION_STORE = SESSION_STORE)

\* C2: destroy always returns ok, for a live, unknown or destroyed handle;
\* when it returns the handle is in neither store and, for a ColumnarOnDisk
\* session, the parquet artifact and its temp directory are gone; destroying
\* a handle that is in neither store (as after a first destroy) changes no
\* state.
C2_DestroyAlwaysSucceeds ==
  \A h \in Handles, rootGoes \in BOOLEAN :
    LET o == clear_session_result(h, rootGoes) IN
      /\ o.resp.ok
      /\ h \in Sids =>
           (o.SESSION_STORE[h] = NoSession /\ o.SESSION_FILE_STORE[h] = NoPath)
      /\ (InStore(h) /\ IsDuck(SESSION_STORE[h])) =>
           o.fs[SESSION_STORE[h].parquet_path] = NoDir
      /\ (~InStore(h) /\ ~InFileStore(h)) =>
           (Untouched(o) /\ o.tmp_root = tmp_root /\ o.UPLOAD_PROGRESS = UPLOAD_PROGRESS)

\* a session was registered and then destroyed, and a directory is gone
C2_Witness ==
  /\ \E s \in Sids : s < nextSid /\ ~InStore(s) /\ ~InFileStore(s)
  /\ \E d \in Dirs : d < nextDir /\ ~DirExists(d)

\* a read that overlapped a join saw a partially written artifact, or new
\* artifact contents with the old metadata
Torn(r) ==
  r.overlap /\ (r.state = "partial" \/ (r.state = "complete" /\ r.data # r.meta))

\* C3: replace is atomic for concurrent readers: a read request running
\* while functions/join rewrites the same session sees the old data with the
\* old metadata or the merged data with the new metadata, never a partially
\* written artifact and never new contents with old metadata, in both tiers.
C3_ReplaceAtomicForReaders ==
  /\ rd.pc = "idle" =>
       \A op \in ThreadOps, h \in Sids : ~Torn(ReadResolve_result(op, h).resp)
  /\ rd.pc = "scan" =>
       \A answered \in BOOLEAN :
         (Scanned.state # "partial" => answered) => ~Torn(ReadScan_result(answered).resp)

\* C4: in explicit-chunk mode the bytes accepted into the temp file of a live
\* upload never exceed MAX_FILE_SIZE: an upload that went over is aborted and
\* its partial file deleted.
C4_CeilingEnforcedInChunkMode ==
  \A u \in Uids :
    (InProgress(u) /\ CsvExists(UPLOAD_PROGRESS[u].temp_dir)) =>
      fs[UPLOAD_PROGRESS[u].temp_dir].csv.size <= MAX_FILE_SIZE

\* C5: the streaming path checks the running total after every chunk: the
\* loop goes on only while the total is within MAX_FILE_SIZE, and the chunk
\* that takes it over ends the upload with an error, the partial file and its
\* directory deleted, no session registered and no further chunk read, so
\* that at most one chunk beyond the ceiling is ever written.
C5_StreamCeilingChecked ==
  (LoopFree /\ upl.pc = "streaming") =>
    /\ upl.total <= MAX_FILE_SIZE
    /\ \A n \in 1..CHUNK_SIZE :
         upl.total + n > MAX_FILE_SIZE =>
           LET o == stream_file_to_disk_result(n) IN
             /\ ~o.resp.ok /\ o.resp.code \in {"too_large", "process"} /\ o.resp.sid = 0
             /\ o.fs[upl.dir] = NoDir
             /\ o.upl = UplIdle
             /\ o.SESSION_STORE = SESSION_STORE
             /\ o.SESSION_FILE_STORE = SESSION_FILE_STORE
             /\ upl.total + n <= MAX_FILE_SIZE + CHUNK_SIZE

\* the stream stands at the ceiling with its file on disk, and one more byte
\* ends it with 413
C5_Witness ==
  /\ LoopFree /\ upl.pc = "streaming" /\ upl.total = MAX_FILE_SIZE
  /\ CsvExists(upl.dir)
  /\ stream_file_to_disk_result(1).resp.code = "too_large"
  /\ ~stream_file_to_disk_result(1).fs[upl.dir].exists

\* the call is refused as not found: nothing is scanned, no scan or join is
\* started, and the stores and the directory tree are as before
Refused(o) ==
  /\ o.resp = NotFound /\ ~o.resp.scanned
  /\ Untouched(o)
  /\ o.rd = rd /\ o.join = join

\* C6: every query-time operation (meta, insights, pivot, metrics, data
\* preview/download/session, functions/join) called with a missing handle or
\* one that is not in SESSION_STORE, a destroyed one included, returns
\* not-found without running a query and leaves SESSION_STORE,
\* SESSION_FILE_STORE and the files on disk unchanged.
C6_UnknownHandleRefused ==
  \A h \in Handles :
    ~InStore(h) =>
      /\ rd.pc = "idle" => \A op \in ThreadOps : Refused(ReadResolve_result(op, h))
      /\ LoopFree =>
           /\ \A op \in LoopOps : Refused(data_read_result(op, h))
           /\ \A outcome \in JoinOutcomes, newRows \in RowCounts :
                Refused(JoinBegin_result(h, outcome, newRows))

\* a handle that was registered and destroyed is asked for
C6_Witness ==
  /\ rd.pc = "idle" /\ LoopFree
  /\ \E s \in Sids : s < nextSid /\ ~InStore(s)
                     /\ ReadResolve_result("insights", s).resp = NotFound
                     /\ data_read_result("preview", s).resp = NotFound

\* the session a success response names is registered with its tier state,
\* and its backing files are on disk
BackingFiles(o, sid) ==
  LET session == o.SESSION_STORE[sid]
      path == o.SESSION_FILE_STORE[sid]
  IN /\ session.tier # "none" /\ path.kind # "none"
     /\ o.fs[path.dir].exists
     /\ IF IsDuck(session)
        THEN /\ session.parquet_path = path.dir
             /\ o.fs[path.dir].pq.exists /\ o.fs[path.dir].pq.state = "complete"
        ELSE o.fs[path.dir].csv.exists

\* an error with no session_id
Failed(r) == ~r.ok /\ r.code \notin {"", "pending"} /\ r.sid = 0

\* one of the two outcomes
Concluded(o) ==
  IF o.resp.ok THEN o.resp.sid \in Sids /\ BackingFiles(o, o.resp.sid)
  ELSE Failed(o.resp)

\* C7: every upload_csv or complete_chunked_upload call ends either in an
\* error with no session_id, or in a success whose session_id is registered in
\* SESSION_STORE with its tier state and whose backing files exist.
C7_ErrorOrUsableSession ==
  LoopFree =>
    /\ upl.pc = "idle" =>
         \A isCsv \in BOOLEAN :
           LET o == UploadBegin_result(isCsv) IN o.upl.pc = "idle" => Failed(o.resp)
    /\ upl.pc = "streaming" =>
         /\ \A n \in 1..CHUNK_SIZE :
              LET o == stream_file_to_disk_result(n) IN o.upl.pc = "idle" => Failed(o.resp)
         /\ \A c \in Contents(upl.total) :
              LET o == upload_csv_result(c) IN Fits(o) => Concluded(o)
    /\ \A u \in UploadIds : \A c \in Assembled(u) :
         LET o == complete_chunked_upload_result(u, c) IN Fits(o) => Concluded(o)

\* a chunked upload was completed into a ColumnarOnDisk session that is
\* registered with its artifact on disk
C7_Witness ==
  \E u \in Uids :
    LET sid == UPLOAD_PROGRESS[u].session_id IN
      /\ InStore(sid) /\ InFileStore(sid)
      /\ IsDuck(SESSION_STORE[sid])
      /\ ParquetExists(SESSION_STORE[sid].parquet_path)

\* a file of the large path whose ingestion fails in the batch loop or on the
\* invalid-date ratio
LargeFailure(size, csv) ==
  /\ size >= DUCKDB_THRESHOLD
  /\ csv.exists /\ csv.hdr = "ok"
  /\ (csv.fault > 0 \/ csv.bad * 100 > csv.rows)

\* the call failed and neither the artifact nor the directory is left
CleanedUp(o, d) == ~o.resp.ok /\ o.resp.sid = 0 /\ o.fs[d] = NoDir

\* C8: when large-file ingestion fails, by an exception in the batch loop or
\* by an invalid-date ratio above 1%, the parquet artifact and the temp
\* directory of the upload no longer exist when upload or complete returns
\* the error.
C8_LargeFailureLeavesNothing ==
  LoopFree =>
    /\ (upl.pc = "streaming" /\ CsvExists(upl.dir)) =>
         \A c \in Contents(upl.total) :
           LargeFailure(upl.total, c) => CleanedUp(upload_csv_result(c), upl.dir)
    /\ \A u \in Uids : \A c \in Assembled(u) :
         LargeFailure(UPLOAD_PROGRESS[u].bytes_uploaded, c) =>
           CleanedUp(complete_chunked_upload_result(u, c), UPLOAD_PROGRESS[u].temp_dir)

\* an assembled large file whose second batch raises: complete writes one
\* batch, fails, and leaves no directory
C8_Witness ==
  \E u \in Uids : \E c \in Assembled(u) :
    /\ LoopFree /\ LargeFailure(UPLOAD_PROGRESS[u].bytes_uploaded, c) /\ c.fault = 2
    /\ complete_chunked_upload_result(u, c).resp.batches = 1
    /\ ~complete_chunked_upload_result(u, c).fs[UPLOAD_PROGRESS[u].temp_dir].exists

\* the header lacks cohort, or lacks both date and time
LacksRequired(csv) == csv.exists /\ csv.hdr \in {"nocohort", "nodate"}

\* a structural error, no handle, nothing registered, no artifact or
\* directory left, and no batch written
Rejected(o, d) ==
  /\ ~o.resp.ok /\ o.resp.code = "structural" /\ o.resp.sid = 0
  /\ o.resp.batches = 0
  /\ o.SESSION_STORE = SESSION_STORE /\ o.SESSION_FILE_STORE = SESSION_FILE_STORE
  /\ o.fs[d] = NoDir

\* C9: an upload whose header lacks cohort, or lacks both date and time, is
\* rejected with a structural error in both tiers, returns no handle and
\* leaves no artifact or temp directory; in the large-file path no batch has
\* been written to the columnar artifact.
C9_StructuralErrorRejected ==
  LoopFree =>
    /\ (upl.pc = "streaming" /\ CsvExists(upl.dir)) =>
         \A c \in Contents(upl.total) :
           LacksRequired(c) => Rejected(upload_csv_result(c), upl.dir)
    /\ \A u \in Uids : \A c \in Assembled(u) :
         LacksRequired(c) =>
           Rejected(complete_chunked_upload_result(u, c), UPLOAD_PROGRESS[u].temp_dir)

\* a stream of the large-file path has ended, and what was streamed has no
\* cohort column
C9_Witness ==
  /\ LoopFree /\ upl.pc = "streaming" /\ upl.total >= DUCKDB_THRESHOLD
  /\ CsvExists(upl.dir)
  /\ \E c \in Contents(upl.total) :
       c.hdr = "nocohort" /\ upload_csv_result(c).resp.code = "structural"

\* the tier of the session a success registers, by the size of the file
TierBySize(o, size, d) ==
  o.resp.ok =>
    LET session == o.SESSION_STORE[o.resp.sid] IN
      IF size < DUCKDB_THRESHOLD
      THEN session.tier = "Memory" /\ session.parquet_path = 0
      ELSE session.tier = "Columnar" /\ session.parquet_path = d

\* C10: a successful upload, direct or chunked, registers a Memory session
\* if and only if the uploaded byte size is strictly below DUCKDB_THRESHOLD,
\* and a ColumnarOnDisk session otherwise; a file of exactly the threshold
\* size is ColumnarOnDisk.
C10_TierBySize ==
  LoopFree =>
    /\ (upl.pc = "streaming" /\ CsvExists(upl.dir)) =>
         \A c \in Contents(upl.total) :
           LET o == upload_csv_result(c)
           IN Fits(o) => TierBySize(o, fs[upl.dir].csv.size, upl.dir)
    /\ \A u \in Uids : \A c \in Assembled(u) :
         LET o == complete_chunked_upload_result(u, c)
             d == UPLOAD_PROGRESS[u].temp_dir
         IN (Fits(o) /\ CsvExists(d)) => TierBySize(o, fs[d].csv.size, d)

\* a file of exactly the threshold size is registered as ColumnarOnDisk
C10_Witness ==
  \E s \in Sids :
    /\ InStore(s) /\ IsDuck(SESSION_STORE[s])
    /\ CsvExists(SESSION_STORE[s].parquet_path)
    /\ fs[SESSION_STORE[s].parquet_path].csv.size = DUCKDB_THRESHOLD

Appended(st, u) ==
  LET d == st.UPLOAD_PROGRESS[u].temp_dir
  IN IF st.fs[d].exists /\ st.fs[d].csv.exists THEN st.fs[d].csv.size ELSE 0

\* C12: for any interleaving of upload_chunk requests and progress polls on
\* one upload_id, a poll returns the total size of the chunks appended to the
\* temp file so far, bytes_uploaded never decreases, and once every append
\* has finished it is the sum of all chunk sizes, also when appends overlap.
C12_ProgressMatchesAppends ==
  \A u \in Uids :
    (LoopFree /\ InProgress(u)) =>
      /\ get_upload_progress_result(u).resp.ok
      /\ get_upload_progress_result(u).resp.val = Appended(State, u)
      /\ \A i \in DOMAIN chunk, n \in ChunkSizes :
           LET o == ChunkEnd_result(i, n) IN
             /\ o.UPLOAD_PROGRESS[u].bytes_uploaded >= UPLOAD_PROGRESS[u].bytes_uploaded
             /\ o.UPLOAD_PROGRESS[u].bytes_uploaded = Appended(o, u)

\* a request is still suspended that began before another one appended, the
\* poll shows what was appended, and the suspended one adds to it
C12_Witness ==
  \E u \in Uids :
    /\ InProgress(u) /\ Len(chunk) = 1 /\ chunk[1].u = u
    /\ chunk[1].seen = 0
    /\ get_upload_progress_result(u).resp.val = CHUNK_SIZE
    /\ fs[UPLOAD_PROGRESS[u].temp_dir].csv.size = CHUNK_SIZE
    /\ ChunkEnd_result(1, CHUNK_SIZE).UPLOAD_PROGRESS[u].bytes_uploaded = 2 * CHUNK_SIZE

\* the directory a session or an upload keeps its files in
SessionDirs(h) ==
  (IF InStore(h) /\ IsDuck(SESSION_STORE[h]) THEN {SESSION_STORE[h].parquet_path} ELSE {})
  \cup (IF InFileStore(h) THEN {SESSION_FILE_STORE[h].dir} ELSE {})

\* C13: after shutdown_event the temp directory of every registered session
\* and of every pending upload, with any columnar artifact in it, has been
\* deleted, whatever uploads, chunked uploads, joins and destroys came before;
\* the directories of sessions destroyed earlier are gone as well.
C13_ShutdownRemovesEverything ==
  stopped =>
    /\ \A h \in Sids : \A d \in SessionDirs(h) : ~DirExists(d) /\ ~ParquetExists(d)
    /\ \A u \in Uids : InProgress(u) => ~DirExists(UPLOAD_PROGRESS[u].temp_dir)
    /\ \A d \in Dirs : ~DirExists(d)

\* shutdown ran while an upload was still being sent in parts
C13_Witness ==
  /\ stopped
  /\ \E u \in Uids : /\ UPLOAD_PROGRESS[u].status = "uploading"
                      /\ UPLOAD_PROGRESS[u].bytes_uploaded > 0
                      /\ ~DirExists(UPLOAD_PROGRESS[u].temp_dir)

\* the query answers agree in ok, summary, time series and pivot rows
SameAnswer(a, b) ==
  /\ a.ok = b.ok /\ a.summary = b.summary
  /\ a.time_series = b.time_series /\ a.data = b.data

\* the answer of the query of calc on the same table held by a given tier
AnswerOf(tier, req) ==
  IF calc.fn = "insights" THEN compute_insights_result(tier, req, calc.rows, calc.numeric)
  ELSE pivot_result(tier, req, calc.rows, calc.numeric)

\* C14: for the same table held once by the Memory tier and once by the
\* ColumnarOnDisk tier, the same insights request and the same pivot request
\* give identical results: the same summary row with its four scalars and
\* deltas, the same time-series points, the same pivot rows.
C14_TiersAgree ==
  calc.tier # "none" =>
    SameAnswer(AnswerOf("Memory", calc.req), AnswerOf("Columnar", calc.req))

\* a period is missing, or lacks its start or its end
PeriodMissing(req) ==
  \E p \in {req.pre_period, req.post_period} : ~p.given \/ p.start_date = 0 \/ p.end_date = 0

\* C15: an insights request with a missing pre_period or post_period, or with
\* a period lacking a start or end date, is rejected as a validation error
\* before any query runs; no summary and no time series is computed for it.
C15_MissingPeriodRejected ==
  (calc.fn = "insights" /\ calc.tier # "none" /\ PeriodMissing(calc.req)) =>
    /\ ~calc.out.ok /\ ~calc.out.queried
    /\ calc.out.summary = <<>> /\ calc.out.time_series = {}

\* C16: an insights request with an empty test_cohort or control_cohort is
\* rejected with a validation error in both tiers before every query step: no
\* DuckDB connection is opened and no aggregation is computed.
C16_EmptyCohortRejectedFirst ==
  (calc.fn = "insights" /\ calc.tier # "none"
     /\ (calc.req.test_cohort = "" \/ calc.req.control_cohort = "")) =>
    /\ ~calc.out.ok /\ calc.out.code \in {"cohort_required", "no_metrics"}
    /\ ~calc.out.connected /\ ~calc.out.queried
    /\ calc.out.summary = <<>> /\ calc.out.time_series = {}

\* a DuckDB session with rows was asked with the control cohort left empty
C16_Witness ==
  /\ calc.fn = "insights" /\ calc.tier = "Columnar" /\ calc.rows # <<>>
  /\ calc.req.test_cohort = "A" /\ calc.req.control_cohort = "" /\ calc.req.metrics = 1
  /\ calc.out.code = "cohort_required" /\ ~calc.out.connected

\* C17: sum, mean, median, min or max over a non-numeric column gives the
\* count of its non-null values and never fails, in insights on either tier
\* and in pivot (which serves the ColumnarOnDisk tier).
C17_NonNumericDegradesToCount ==
  (calc.tier # "none" /\ ~calc.numeric) =>
    /\ (calc.fn = "insights" /\ calc.req.metrics = 1 /\ ~CohortMissing(calc.req)
          /\ calc.req.also = ""
          /\ calc.req.agg_func \in {"sum", "mean", "median"}) =>
         /\ calc.out.ok
         /\ SameAnswer(calc.out, AnswerOf(calc.tier, [calc.req EXCEPT !.agg_func = "count"]))
    /\ (calc.fn = "pivot" /\ calc.tier = "Columnar" /\ Len(calc.req.values) = 1
          /\ calc.req.values[1].col = "x"
          /\ calc.req.values[1].agg \in {"sum", "avg", "min", "max"}) =>
         /\ calc.out.ok
         /\ SameAnswer(calc.out,
                       AnswerOf(calc.tier, [calc.req EXCEPT !.values[1].agg = "count"]))

\* pct is null for a zero baseline and delta / base * 100 otherwise (NaN when
\* a NaN enters the division)
PctOf(pct, delta, base) ==
  IF base.k = "num" /\ base.n = 0 THEN pct = None
  ELSE IF base.k = "num" /\ delta.k = "num"
    THEN pct.k = "num" /\ pct.n * base.n * delta.d = 100 * delta.n * base.d * pct.d
  ELSE pct.k = "nan"

\* C18: in every summary row of either tier a percentage delta whose baseline
\* is zero is null: control_delta_pct for control_pre = 0, test_delta_pct for
\* test_pre = 0, diff_in_diff_pct for control_pre = 0; otherwise it is
\* delta / baseline * 100.
C18_PctNullOnZeroBaseline ==
  (calc.fn = "insights" /\ calc.tier # "none" /\ calc.out.ok) =>
    \A i \in DOMAIN calc.out.summary :
      LET r == calc.out.summary[i] IN
        /\ PctOf(r.control_delta_pct, r.control_delta, r.control_pre)
        /\ PctOf(r.test_delta_pct, r.test_delta, r.test_pre)
        /\ PctOf(r.diff_in_diff_pct, r.diff_in_diff, r.control_pre)

\* a summary whose control baseline is zero and whose test baseline is not
C18_Witness ==
  /\ calc.fn = "insights" /\ calc.tier # "none" /\ calc.out.ok
  /\ LET r == calc.out.summary[1] IN
       /\ r.control_pre = Num(0, 1) /\ r.control_post # Num(0, 1)
       /\ r.control_delta_pct = None /\ r.diff_in_diff_pct = None
       /\ r.test_pre.k = "num" /\ r.test_pre.n > 0
       /\ r.test_delta_pct.k = "num" /\ r.test_delta_pct.n < 0

\* the aggregate, as the tier computes it, of the x cells of the rows of one
\* cohort whose date lies in the inclusive window of a period; 0 without rows
WindowAggregate(cohort, p) ==
  LET rows == SelectSeq(calc.rows, LAMBDA r : /\ r.cohort = cohort
                                             /\ r.date >= p.start_date
                                             /\ r.date <= p.end_date)
  IN IF rows = <<>> THEN Num(0, 1)
     ELSE IF calc.tier = "Columnar"
       THEN NotNaOrZero(get_sql_agg(rows, calc.numeric, calc.req.agg_func))
     ELSE agg_series(rows, calc.numeric, calc.req.agg_func)

\* C19: for every metric of an insights response control_delta = control_post
\* - control_pre, test_delta = test_post - test_pre, diff_in_diff = test_delta
\* - control_delta, and each of the four scalars is the aggregate of the metric
\* over exactly the rows of that cohort dated within that period's inclusive
\* window, 0 when there are none.
C19_ScalarsAndDeltas ==
  (calc.fn = "insights" /\ calc.tier # "none" /\ calc.out.ok /\ ~PeriodMissing(calc.req)
     /\ calc.req.also = "") =>
    \A i \in DOMAIN calc.out.summary :
      LET r == calc.out.summary[i] IN
        /\ r.control_delta = Minus(r.control_post, r.control_pre)
        /\ r.test_delta = Minus(r.test_post, r.test_pre)
        /\ r.diff_in_diff = Minus(r.test_delta, r.control_delta)
        /\ r.control_pre = WindowAggregate(calc.req.control_cohort, calc.req.pre_period)
        /\ r.control_post = WindowAggregate(calc.req.control_cohort, calc.req.post_period)
        /\ r.test_pre = WindowAggregate(calc.req.test_cohort, calc.req.pre_period)
        /\ r.test_post = WindowAggregate(calc.req.test_cohort, calc.req.post_period)

\* C20: for every successful upload in either tier, the row count, the cohort
\* set, date_min and date_max of the upload response equal those a following
\* meta or data-session call reports for the handle; in the ColumnarOnDisk
\* tier the row count is the number of data rows written to the artifact.
C20_UploadMetadataMatches ==
  (calc.fn = "upload" /\ calc.stage # "file" /\ calc.up.ok) =>
    /\ calc.tier = "Columnar" => calc.up.num_rows = calc.up.written
    /\ calc.stage = "read" =>
         /\ calc.back.cohorts = calc.up.cohorts
         /\ calc.back.date_min = calc.up.date_min
         /\ calc.back.date_max = calc.up.date_max
         /\ calc.op = "data" => calc.back.row_count = calc.up.num_rows

\* a large file with one unparseable date in more than a hundred rows was
\* accepted and its session read back
C20_Witness ==
  /\ calc.fn = "upload" /\ calc.stage = "read" /\ calc.op = "data"
  /\ calc.tier = "Columnar" /\ calc.up.ok
  /\ \E i \in DOMAIN calc.rows : calc.rows[i].date = 0
  /\ calc.back.row_count = Len(calc.rows) + MaxPad
  /\ calc.back.cohorts = {"A", "B"}

\* C25: every session registered in SESSION_STORE still has its backing
\* storage: the parquet file of a ColumnarOnDisk session exists at
\* parquet_path, whatever init, upload_chunk, complete, cancel_upload, upload
\* or destroy calls were made for other handles or for an upload_id whose
\* complete has succeeded.
C25_LiveSessionKeepsArtifact ==
  \A h \in Sids :
    (InStore(h) /\ IsDuck(SESSION_STORE[h])) => ParquetExists(SESSION_STORE[h].parquet_path)

\* C26: whenever upload_csv or complete_chunked_upload ends in an error,
\* SESSION_STORE and SESSION_FILE_STORE hold no entry created by that call.
C26_ErrorRegistersNothing ==
  LoopFree =>
    /\ upl.pc = "streaming" =>
         \A c \in Contents(upl.total) :
           LET o == upload_csv_result(c)
           IN (Fits(o) /\ ~o.resp.ok) =>
                /\ o.SESSION_STORE = SESSION_STORE
                /\ o.SESSION_FILE_STORE = SESSION_FILE_STORE
    /\ \A u \in UploadIds : \A c \in Assembled(u) :
         LET o == complete_chunked_upload_result(u, c)
         IN (Fits(o) /\ ~o.resp.ok) =>
              /\ o.SESSION_STORE = SESSION_STORE
              /\ o.SESSION_FILE_STORE = SESSION_FILE_STORE

\* C27: no two distinct session handles reference the same parquet_path or
\* the same temp directory.
C27_ExclusiveStorage ==
  \A g, h \in Sids :
    g # h =>
      /\ (InStore(g) /\ InStore(h) /\ IsDuck(SESSION_STORE[g]) /\ IsDuck(SESSION_STORE[h]))
           => SESSION_STORE[g].parquet_path # SESSION_STORE[h].parquet_path
      /\ (InFileStore(g) /\ InFileStore(h))
           => SESSION_FILE_STORE[g].dir # SESSION_FILE_STORE[h].dir

\* C28: when functions/join returns success=false, for whatever reason, the
\* session is as before the call: SESSION_STORE holds the same tier state and
\* metadata, and the artifact of a ColumnarOnDisk session has the contents it
\* had (the data version the stored metadata describes).
C28_FailedJoinChangesNothing ==
  LET Unchanged(o) ==
        (~o.resp.ok /\ o.resp.code # "pending") =>
          /\ o.SESSION_STORE = SESSION_STORE
          /\ \A h \in Sids :
               (InStore(h) /\ IsDuck(SESSION_STORE[h]) /\ JoinRunning(h)
                  /\ ParquetExists(SESSION_STORE[h].parquet_path)) =>
                 o.fs[SESSION_STORE[h].parquet_path].pq.ver = SESSION_STORE[h].ver
  IN /\ LoopFree =>
          \A h \in Handles, outcome \in JoinOutcomes, newRows \in RowCounts :
            LET o == JoinBegin_result(h, outcome, newRows)
            IN (~o.resp.ok /\ o.resp.code # "pending") => Untouched(o)
     /\ join.pc = "merged" => Unchanged(JoinWriteOpen_result)
     /\ join.pc = "swap" => Unchanged(JoinSwap_result)

\* C30: a successful functions/join keeps the tier and the shape of the
\* metadata: a ColumnarOnDisk session stays ColumnarOnDisk at the same
\* parquet_path, a Memory session stays Memory, and the stored metadata keeps
\* every field set at creation (numeric_columns, categorical_columns, ...), so
\* that meta still reports the categorical columns.
C30_JoinKeepsMetadataShape ==
  (join.pc = "swap" /\ InStore(join.h)) =>
    LET o == JoinSwap_result
        before == SESSION_STORE[join.h]
        after == o.SESSION_STORE[join.h]
    IN o.resp.ok =>
         /\ after.tier = before.tier
         /\ after.parquet_path = before.parquet_path
         /\ after.full = before.full

\* C29: meta, insights, pivot, metrics, data preview, data download and data
\* session leave SESSION_STORE (the stored DataFrame of a Memory session
\* included), SESSION_FILE_STORE, UPLOAD_PROGRESS and every artifact on disk
\* unchanged; a read that runs while another read of the same session is in
\* progress therefore finds, and leaves, what it finds when run alone.
C29_ReadsChangeNothing ==
  LET Frame(o) ==
        /\ Untouched(o)
        /\ o.UPLOAD_PROGRESS = UPLOAD_PROGRESS /\ o.tmp_root = tmp_root
        /\ o.join = join /\ o.upl = upl /\ o.chunk = chunk
  IN /\ rd.pc = "idle" =>
          \A op \in ThreadOps, h \in Handles : Frame(ReadResolve_result(op, h))
     /\ rd.pc = "scan" =>
          \A answered \in BOOLEAN : Frame(ReadScan_result(answered))
     /\ \A op \in LoopOps, h \in Handles :
          LET o == data_read_result(op, h) IN Frame(o) /\ o.rd = rd

\* a scan of a ColumnarOnDisk session is in progress while a preview of the
\* same session is answered from the artifact
C29_Witness ==
  /\ rd.pc = "scan" /\ InStore(rd.h) /\ IsDuck(SESSION_STORE[rd.h])
  /\ data_read_result("preview", rd.h).resp.ok
  /\ data_read_result("preview", rd.h).resp.scanned

\* the columns of the table of a session
TableColumns == {"cohort", "date", "x"}

\* the same request without the filters and the value specs that name a
\* column the table does not have
OnTableColumns(req) ==
  [req EXCEPT !.filters = SelectSeq(@, LAMBDA f : f.column \in TableColumns),
              !.values = SelectSeq(@, LAMBDA v : v.col \in TableColumns)]

\* C21: a pivot filter on a column the dataset does not have is ignored,
\* whatever its operator and value: the request returns exactly what the same
\* request without that filter returns, and no error.
C21_UnknownFilterIgnored ==
  (calc.fn = "pivot" /\ calc.tier = "Columnar") =>
    /\ calc.out.ok
    /\ calc.out = pivot_result("Columnar",
                               [calc.req EXCEPT !.filters = OnTableColumns(calc.req).filters],
                               calc.rows, calc.numeric)

\* a request with a filter on the unknown column y and one on cohort was
\* answered with the rows of cohort A only, on a table that has other rows
C21_Witness ==
  /\ calc.fn = "pivot" /\ calc.tier = "Columnar" /\ calc.out.ok
  /\ Len(calc.req.filters) = 2 /\ calc.req.filters[1].column = "y"
  /\ calc.req.row_fields = <<"cohort">>
  /\ \E i \in DOMAIN calc.rows : calc.rows[i].cohort = "B"
  /\ {r.key : r \in calc.out.data} = {<<"A">>}

\* C22: an aggregation spec on a column the dataset does not have gives no
\* output column and no error, and the other specs of the request are computed
\* and returned as without it: pivot value specs, and insights metric specs in
\* both tiers.
C22_AbsentColumnSpecSkipped ==
  /\ (calc.fn = "pivot" /\ calc.tier = "Columnar") =>
       /\ calc.out.ok
       /\ calc.out = pivot_result("Columnar",
                                  [calc.req EXCEPT !.values = OnTableColumns(calc.req).values],
                                  calc.rows, calc.numeric)
  /\ (calc.fn = "insights" /\ calc.tier # "none" /\ calc.req.also # "") =>
       /\ calc.out.ok
       /\ calc.out = AnswerOf(calc.tier, [calc.req EXCEPT !.also = ""])

\* the rows of the table of calc that pass the filters of a pivot request
Filtered(req) ==
  SelectSeq(calc.rows, LAMBDA r :
    \A i \in DOMAIN req.filters :
      LET f == req.filters[i] IN
        /\ (f.column = "cohort" /\ f.operator = "equals") => r.cohort = f.value
        /\ (f.column = "cohort" /\ f.operator = "not_equals") => r.cohort # f.value)

\* the header of a pivot whose filtered data is rows: the row fields, then for
\* each column key in ascending order (the empty key without column fields)
\* one column per value spec
PivotHeader(req, rows) ==
  LET values == OnTableColumns(req).values
      dates == {rows[i].date : i \in DOMAIN rows}
      keys == IF req.col_fields = <<>> THEN << <<>> >>
              ELSE CHOOSE q \in [1..Cardinality(dates) -> {<<d>> : d \in dates}] :
                     \A i, j \in DOMAIN q : i < j => q[i][1] < q[j][1]
      m == Len(values)
  IN req.row_fields \o
     [i \in 1..(Len(keys) * m) |->
        <<keys[((i - 1) \div m) + 1], values[((i - 1) % m) + 1].col,
          values[((i - 1) % m) + 1].agg>>]

\* C23: a pivot result has exactly one row per distinct row-key tuple of the
\* filtered data, and one value column per pair of a distinct column key and
\* an aggregation spec, the column keys in sorted order; without column fields
\* the columns are the row fields followed by one column per spec.
C23_PivotShape ==
  (calc.fn = "pivot" /\ calc.tier = "Columnar" /\ OnTableColumns(calc.req).values # <<>>) =>
    LET rows == Filtered(calc.req)
        row_keys == {[i \in DOMAIN calc.req.row_fields |-> rows[j][calc.req.row_fields[i]]] :
                       j \in DOMAIN rows}
    IN /\ calc.out.ok
       /\ {r.key : r \in calc.out.data} = row_keys
       /\ Cardinality(calc.out.data) = Cardinality(row_keys)
       /\ calc.out.columns = PivotHeader(calc.req, rows)

\* C24: a pivot query that matches no row returns no data rows and no error,
\* and its header is the row fields followed by the aggregation columns of the
\* request.
C24_EmptyResultKeepsHeader ==
  (calc.fn = "pivot" /\ calc.tier = "Columnar" /\ Filtered(calc.req) = <<>>) =>
    /\ calc.out.ok
    /\ calc.out.data = {}
    /\ calc.out.columns = PivotHeader(calc.req, <<>>)
====
